---------------------------- MODULE Spec2Model ----------------------------
(***************************************************************************)
(* Model of the task-orchestration engine of General_Repo                  *)
(* (async_operations.py, class AsyncOperations).                           *)
(*                                                                         *)
(* Every coroutine is cut at its suspension points (await): one action is  *)
(* the code a coroutine runs between two suspensions.  A unit of work runs *)
(* in a worker thread (asyncio.to_thread); its completion is an action of  *)
(* the environment, and the coroutine awaiting it resumes in a later step  *)
(* of the event loop.                                                      *)
(***************************************************************************)
EXTENDS Integers, Sequences, FiniteSets, TLC

\* ------------------------------------------------------------------ bounds
MaxTasks == 3
NumUnits == 2
MaxConcurrent == 2
MaxRetries == 3
MaxDelay == 2
MaxTimeout == 3
MaxDeps == 2
MaxRlTasks == 5
MaxRateLimit == 3
MaxPeriod == 2
MaxPriority == 2

\* ------------------------------------------------------------------ values
\* Units of work are opaque callables, identified by a number.
Units == 1 .. NumUnits

\* A Python object that is not a list: its kind (or its class, for an
\* exception) and two fields, wrapped so that no object has the shape of a
\* list of objects.
Object(kind, a, b) == << <<kind, a, b>> >>

\* the kind or class of an object, and its second field
ClassOf(e) == e[1][1]

ArgOf(e) == e[1][3]

\* Python's None.
None == Object("None", 0, 0)

Val(u) == Object("value", u, 0)

\* What unit u returns when it returns: unit 1 is a procedure without a
\* return statement (it returns None), every other unit returns its own value.
RetVal(u) == IF u = 1 THEN None ELSE Val(u)

\* The exception of class c that the k-th invocation of unit u raises.
ErrOf(c, u, k) == Object(c, u, k)

\* The exception the k-th invocation of unit u raises when it raises.
Err(u, k) == ErrOf("Exception", u, k)

\* The classes of the exceptions a unit may raise: any subclass of Exception,
\* among them the class that asyncio.wait_for raises itself.
ExceptionClasses == {"Exception", "TimeoutError"}

\* The argument lists of run_in_parallel and run_with_resource_management.
TaskLists == UNION { [1 .. n -> Units] : n \in 0 .. MaxTasks }

RECURSIVE SelectIdx(_, _)
\* the first element of sequence s satisfying membership in set S, or 0
SelectIdx(s, S) ==
    IF s = <<>> THEN 0
    ELSE IF Head(s) \in S THEN Head(s) ELSE SelectIdx(Tail(s), S)

RemoveElem(s, e) == SelectSeq(s, LAMBDA x : x # e)

VARIABLES
    log,           \* the entries handed to self.logger, in order
    callState,     \* the call as its caller sees it: init, awaiting, returned, raised
    retVal,        \* the value returned to the caller
    excVal,        \* the exception raised to the caller
    tasks,         \* argument tasks (a list of units)
    max_concurrent, \* argument max_concurrent
    child,         \* gather's children: the state of the coroutine of tasks[i]
    childOut,      \* the result or exception of child i, once it is done
    gather,        \* the future asyncio.gather returns: pending, result, exception
    gatherVal,     \* its result list or its exception
    finishOrder,   \* child indices in the order their worker threads finished
    semValue,      \* asyncio.Semaphore._value
    waiters,       \* asyncio.Semaphore._waiters
    task,          \* argument task of the wrappers of one unit
    thread,        \* the worker thread of that unit: none, running, ok, fail
    threadExc,     \* the exception the unit raised in it
    invocations,   \* how many times the unit has been invoked
    finishedAt,    \* the time at which the worker thread finished
    max_retries,    \* argument max_retries
    retry_delay,    \* argument retry_delay
    attempt,       \* run_with_retry's loop variable
    sleeps,        \* the durations of the asyncio.sleep calls made, in order
    timeout,       \* argument timeout
    now,           \* time since run_with_timeout was called
    expired,       \* whether wait_for's deadline has fired
    dgOrder,       \* the keys of argument tasks (a dict), in iteration order
    dependencies,  \* argument dependencies: task name -> list of task names
    results,       \* run_with_dependency_graph's dict results
    in_progress,    \* its set in_progress
    stack,         \* the active calls of run_task_with_deps, innermost last
    topIdx,        \* position of the loop "for task_name in tasks"
    dgThread,      \* the worker thread of the unit in flight: none, running, ok, fail
    invoked,       \* the task names whose unit has been invoked, in order
    calls,         \* the calls of run_task_with_deps made: <<caller, task name>>
    rl_tasks,      \* argument tasks of run_with_rate_limit
    rate_limit,    \* argument rate_limit
    time_period,   \* argument time_period
    rl_i,          \* run_with_rate_limit's loop variable i
    rl_results,    \* its list results
    pauses,        \* the durations of its asyncio.sleep calls, in order
    launched,      \* positions in rl_tasks of the units invoked, in order
    descriptors,   \* argument tasks of run_with_priority: [task, priority] records
    sorted_tasks,  \* its list sorted_tasks, as positions in descriptors
    pr_results,    \* its list results
    pr_pos,        \* position of its loop in sorted_tasks
    pr_thread,     \* the worker thread of the unit in flight: none, running, ok, fail
    pr_trace,      \* <<"invoked", p>> and <<"completed", p>> events, p a position in descriptors
    logger,        \* the logger given to the constructor: ok, or raises on every call
    undo_stack,    \* UndoManager.undo_stack, top last
    redo_stack,    \* UndoManager.redo_stack, top last
    um_call,       \* the call of the UndoManager in progress: idle, execute_action, undo, redo
    um_thread,     \* the worker thread of that call: none, running, ok, fail
    um_entry,      \* the entry that call holds: the popped one, or the action being executed
    um_calls,      \* the number of calls made
    um_last,       \* the calls completed, the latest last: <<method, outcome>>
    um_before,     \* <<undo_stack, redo_stack>> as they were when undo was last called
    failing,       \* two calls of run_with_dependency_graph: the names whose unit raises
    ccState,       \* of each call: init, running, awaiting, returned, raised
    ccResults,     \* the dict results of each call
    ccInProgress,  \* the set in_progress of each call
    ccStack,       \* of each call: its frames of run_task_with_deps, innermost last
    ccTopIdx,      \* of each call: the position of its loop over tasks
    ccThread,      \* of each call: its worker thread: none, running, ok, fail
    ccRet,         \* of each call: the dict it returned
    ccExc,         \* of each call: the exception it raised
    ccInvoked,     \* of each call: the names whose unit it invoked, in order
    ccMet          \* the names that were in progress in both calls at once

callVars == <<callState, retVal, excVal>>
gatherVars == <<tasks, child, childOut, gather, gatherVal, finishOrder>>
semVars == <<max_concurrent, semValue, waiters>>
unitVars == <<task, thread, threadExc, invocations, finishedAt>>
retryVars == <<max_retries, retry_delay, attempt, sleeps>>
timeoutVars == <<timeout, now, expired>>
dgVars == <<dgOrder, dependencies, results, in_progress, stack, topIdx, dgThread, invoked, calls>>
rlVars == <<rl_tasks, rate_limit, time_period, rl_i, rl_results, pauses, launched>>
prVars == <<descriptors, sorted_tasks, pr_results, pr_pos, pr_thread, pr_trace>>
ccVars == <<failing, ccState, ccResults, ccInProgress, ccStack, ccTopIdx, ccThread, ccRet, ccExc,
           ccInvoked, ccMet>>
umVars == <<undo_stack, redo_stack, um_call, um_thread, um_entry, um_calls, um_last, um_before>>
vars == <<log, logger, callVars, gatherVars, semVars, unitVars, retryVars, timeoutVars, dgVars,
          rlVars, prVars, umVars, ccVars>>

\* what the actions of one runner leave alone: the variables of the others
notGatherVars == <<logger, unitVars, retryVars, timeoutVars, dgVars, rlVars, prVars, umVars, ccVars>>
notRetryVars == <<logger, gatherVars, semVars, timeoutVars, dgVars, rlVars, prVars, umVars, ccVars>>
notTimeoutVars == <<logger, gatherVars, semVars, retryVars, dgVars, rlVars, prVars, umVars, ccVars>>
notDgVars == <<logger, gatherVars, semVars, unitVars, retryVars, timeoutVars, rlVars, prVars, umVars, ccVars>>
notRlVars == <<logger, semVars, unitVars, retryVars, timeoutVars, dgVars, prVars, umVars, ccVars>>
notUmVars == <<logger, callVars, gatherVars, semVars, unitVars, retryVars, timeoutVars, dgVars,
               rlVars, prVars, ccVars>>
notCcVars == <<logger, callVars, gatherVars, semVars, unitVars, retryVars, timeoutVars, dgVars,
               rlVars, prVars, umVars>>
notPrVars == <<logger, gatherVars, semVars, unitVars, retryVars, timeoutVars, dgVars, rlVars, umVars, ccVars>>

Children == DOMAIN child

\* no second call of run_with_dependency_graph is made
CcIdle ==
    /\ failing = {}
    /\ ccState = <<>>
    /\ ccResults = <<>>
    /\ ccInProgress = <<>>
    /\ ccStack = <<>>
    /\ ccTopIdx = <<>>
    /\ ccThread = <<>>
    /\ ccRet = <<>>
    /\ ccExc = <<>>
    /\ ccInvoked = <<>>
    /\ ccMet = {}

\* an UndoManager after construction
UmIdle ==
    /\ undo_stack = <<>>
    /\ redo_stack = <<>>
    /\ um_call = "idle"
    /\ um_thread = "none"
    /\ um_entry = <<>>
    /\ um_calls = 0
    /\ um_last = <<>>
    /\ um_before = <<>>

\* a call that has not been made: the state of callVars after construction
CallInit ==
    /\ log = <<>>
    /\ logger = "ok"
    /\ callState = "init"
    /\ retVal = None
    /\ excVal = None
    /\ UmIdle
    /\ CcIdle

\* the gather and semaphore variables of a run that uses neither
GatherIdle ==
    /\ tasks = <<>>
    /\ child = <<>>
    /\ childOut = <<>>
    /\ gather = "none"
    /\ gatherVal = None
    /\ finishOrder = <<>>

SemIdle ==
    /\ max_concurrent = 0
    /\ semValue = 0
    /\ waiters = <<>>

UnitIdle ==
    /\ task = 0
    /\ thread = "none"
    /\ threadExc = None
    /\ invocations = 0
    /\ finishedAt = 0

RetryIdle ==
    /\ max_retries = 0
    /\ retry_delay = 0
    /\ attempt = 0
    /\ sleeps = <<>>

TimeoutIdle ==
    /\ timeout = 0
    /\ now = 0
    /\ expired = FALSE

DgIdle ==
    /\ dgOrder = <<>>
    /\ dependencies = <<>>
    /\ results = <<>>
    /\ in_progress = {}
    /\ stack = <<>>
    /\ topIdx = 0
    /\ dgThread = "none"
    /\ invoked = <<>>
    /\ calls = <<>>

RlIdle ==
    /\ rl_tasks = <<>>
    /\ rate_limit = 0
    /\ time_period = 0
    /\ rl_i = 0
    /\ rl_results = <<>>
    /\ pauses = <<>>
    /\ launched = <<>>

PrIdle ==
    /\ descriptors = <<>>
    /\ sorted_tasks = <<>>
    /\ pr_results = <<>>
    /\ pr_pos = 0
    /\ pr_thread = "none"
    /\ pr_trace = <<>>

\* ------------------------------------------------------- asyncio.gather
\* gather(*coros) wraps every coroutine in a task (state "ready": scheduled,
\* first step not run yet).  Without children its future is already done
\* with the empty list.
GatherCreate(ts) ==
    /\ child' = [i \in 1 .. Len(ts) |-> "ready"]
    /\ childOut' = [i \in 1 .. Len(ts) |-> None]
    /\ gather' = IF Len(ts) = 0 THEN "result" ELSE "pending"
    /\ gatherVal' = IF Len(ts) = 0 THEN <<>> ELSE None
    /\ finishOrder' = <<>>

\* a gather called with return_exceptions=True
ReturnExceptionsSet == TRUE

\* gather is called without return_exceptions: its default
ReturnExceptions == FALSE

\* results collected as the children complete (as asyncio.as_completed does)
GatherResultsAsCompleted(out) ==
    [k \in DOMAIN out |-> IF k \in DOMAIN finishOrder THEN out[finishOrder[k]] ELSE out[k]]

\* The list gather hands out: the children's results by position
GatherResults(out) == [i \in DOMAIN out |-> out[i]]

\* a gather whose future is done as soon as one child has ended
SomeChildEnded(st) == \E j \in DOMAIN st : st[j] \in {"done", "failed"}

\* gather sets its result when the last of its children has ended
AllChildrenEnded(st) == \A j \in DOMAIN st : st[j] \in {"done", "failed"}

\* gather's _done_callback for child i, which ended with outcome o
\* (ok: a result, otherwise an exception); st and out are the children's
\* states and outcomes with child i's already recorded.
GatherDone(i, ok, o, st, out) ==
    IF gather # "pending"
    THEN UNCHANGED <<gather, gatherVal>>
    ELSE IF ~ok /\ ~ReturnExceptions
    THEN /\ gather' = "exception"
         /\ gatherVal' = o
    ELSE IF AllChildrenEnded(st)
    THEN /\ gather' = "result"
         /\ gatherVal' = GatherResults(out)
    ELSE UNCHANGED <<gather, gatherVal>>

\* The event loop runs the first step of the children in creation order, and
\* all of them before any callback a worker thread schedules afterwards.
NextToStart(i) == /\ child[i] = "ready"
                  /\ \A j \in 1 .. (i - 1) : child[j] # "ready"

AllStarted == \A j \in Children : child[j] # "ready"

\* Worker threads hand their results to the loop with call_soon_threadsafe:
\* the coroutines resume in the order the threads finished.
NextToResume(i) ==
    /\ AllStarted
    /\ child[i] \in {"threadok", "threadfail"}
    /\ i = SelectIdx(finishOrder, {j \in Children : child[j] \in {"threadok", "threadfail"}})

\* ------------------------------------------------------- the unit of work
\* The worker thread of child i returns from the unit.
UnitReturn(i) ==
    /\ child[i] = "running"
    /\ child' = [child EXCEPT ![i] = "threadok"]
    /\ finishOrder' = Append(finishOrder, i)
    /\ UNCHANGED <<log, callVars, tasks, childOut, gather, gatherVal, semVars>>
    /\ UNCHANGED notGatherVars

\* The unit raises in the worker thread of child i.
UnitRaise(i) ==
    /\ child[i] = "running"
    /\ child' = [child EXCEPT ![i] = "threadfail"]
    /\ finishOrder' = Append(finishOrder, i)
    /\ UNCHANGED <<log, callVars, tasks, childOut, gather, gatherVal, semVars>>
    /\ UNCHANGED notGatherVars

\* ------------------------------------------------------- self.logger
\* The logger is the object given to the constructor; no call of it is
\* guarded.  A call of a faulty logger may raise; this is modelled for
\* run_in_parallel and the run_task of its children, the other
\* specifications start with a logger that works.
LoggerCall == IF logger = "ok" THEN {FALSE} ELSE BOOLEAN

\* the exception a call of the logger raises
LoggerError == Object("LoggerError", 0, 0)

\* the log after self.logger.info / warning / error is called with entry;
\* raises: the call raises instead
Logged(l, entry, raises) == IF raises THEN l ELSE Append(l, entry)

\* ------------------------------------------------------- run_task
\* a handler of run_task without the call of self.logger.error
run_task_silent(ok, u) == log

\* run_task after its await: it returns the unit's value, or logs the
\* unit's exception and raises it again.
run_task_log(ok, u) ==
    IF ok THEN log ELSE Logged(log, <<"error", "Error in task", u>>, FALSE)

\* a run_task whose handler ends without "raise": the call returns None
run_task_swallows(ok) == FALSE

\* "except Exception as e: ...; raise": run_task raises when the unit raised
run_task_raises(ok) == ~ ok

run_task_outcome(ok, u, k) ==
    IF ok THEN RetVal(u)
    ELSE IF run_task_raises(ok) THEN Err(u, k) ELSE None

\* ------------------------------------------------------- run_in_parallel
run_in_parallel ==
    /\ callState = "init"
    /\ gather = "none"
    /\ \E raises \in LoggerCall :
          /\ log' = Logged(log, <<"info", "Running tasks in parallel", Len(tasks)>>, raises)
          /\ IF raises
             THEN /\ callState' = "raised"
                  /\ excVal' = LoggerError
                  /\ UNCHANGED <<child, childOut, gather, gatherVal, finishOrder>>
             ELSE /\ GatherCreate(tasks)
                  /\ callState' = "awaiting"
                  /\ UNCHANGED excVal
    /\ UNCHANGED <<retVal, tasks, semVars>>
    /\ UNCHANGED notGatherVars

\* first step of child i: run_task up to its await of asyncio.to_thread
run_task_start(i) ==
    /\ max_concurrent = 0
    /\ NextToStart(i)
    /\ child' = [child EXCEPT ![i] = "running"]
    /\ UNCHANGED <<log, callVars, tasks, childOut, gather, gatherVal, finishOrder, semVars>>
    /\ UNCHANGED notGatherVars

\* child i resumes from to_thread and ends; gather's callback follows.  An
\* exception raised by self.logger.error in the handler of run_task takes the
\* place of the unit's.
run_task_resume(i) ==
    /\ max_concurrent = 0
    /\ NextToResume(i)
    /\ \E raises \in (IF child[i] = "threadok" THEN {FALSE} ELSE LoggerCall) :
        LET ok == child[i] = "threadok"
            failed == raises \/ run_task_raises(ok)
            st == [child EXCEPT ![i] = IF failed THEN "failed" ELSE "done"]
            out == [childOut EXCEPT ![i] = IF raises THEN LoggerError
                                           ELSE run_task_outcome(ok, tasks[i], i)]
        IN /\ log' = IF raises THEN log ELSE run_task_log(ok, tasks[i])
           /\ child' = st
           /\ childOut' = out
           /\ GatherDone(i, ~ failed, out[i], st, out)
    /\ UNCHANGED <<callVars, tasks, finishOrder, semVars>>
    /\ UNCHANGED notGatherVars

\* run_in_parallel resumes from its await of gather
run_in_parallel_resume ==
    /\ max_concurrent = 0
    /\ callState = "awaiting"
    /\ gather \in {"result", "exception"}
    /\ IF gather = "result"
       THEN \E raises \in LoggerCall :
               /\ log' = Logged(log, <<"info", "Parallel execution completed", Len(tasks)>>, raises)
               /\ IF raises
                  THEN /\ callState' = "raised"
                       /\ excVal' = LoggerError
                       /\ UNCHANGED retVal
                  ELSE /\ callState' = "returned"
                       /\ retVal' = gatherVal
                       /\ UNCHANGED excVal
       ELSE /\ callState' = "raised"
            /\ excVal' = gatherVal
            /\ UNCHANGED <<log, retVal>>
    /\ UNCHANGED <<gatherVars, semVars>>
    /\ UNCHANGED notGatherVars

InitParallel ==
    /\ CallInit
    /\ tasks \in TaskLists
    /\ child = <<>>
    /\ childOut = <<>>
    /\ gather = "none"
    /\ gatherVal = None
    /\ finishOrder = <<>>
    /\ SemIdle
    /\ UnitIdle
    /\ RetryIdle
    /\ TimeoutIdle
    /\ DgIdle
    /\ RlIdle
    /\ PrIdle

\* run_in_parallel of an object constructed with any logger
InitLoggerRaises ==
    /\ log = <<>>
    /\ logger \in {"ok", "faulty"}
    /\ callState = "init"
    /\ retVal = None
    /\ excVal = None
    /\ UmIdle
    /\ CcIdle
    /\ tasks \in TaskLists
    /\ child = <<>>
    /\ childOut = <<>>
    /\ gather = "none"
    /\ gatherVal = None
    /\ finishOrder = <<>>
    /\ SemIdle
    /\ UnitIdle
    /\ RetryIdle
    /\ TimeoutIdle
    /\ DgIdle
    /\ RlIdle
    /\ PrIdle

NextParallel ==
    \/ run_in_parallel
    \/ \E i \in Children : run_task_start(i)
    \/ \E i \in Children : UnitReturn(i)
    \/ \E i \in Children : UnitRaise(i)
    \/ \E i \in Children : run_task_resume(i)
    \/ run_in_parallel_resume

SpecParallel == InitParallel /\ [][NextParallel]_vars

SpecLoggerRaises == InitLoggerRaises /\ [][NextParallel]_vars


\* ------------------------------------------- run_with_resource_management
\* a semaphore that admits every caller
SemNeverLocked(value, ws) == FALSE

\* asyncio.Semaphore.locked
SemLocked(value, ws) == value = 0 \/ ws # <<>>

\* asyncio.Semaphore.release: the slot goes to the first waiter whose future
\* is not done yet (it is woken), or back to the counter.
WakeUpNext(ws, st) == SelectIdx(ws, {j \in DOMAIN st : st[j] = "waiting"})

SemRelease(st) ==
    LET w == WakeUpNext(waiters, st)
    IN IF w = 0
       THEN /\ semValue' = semValue + 1
            /\ child' = st
       ELSE /\ semValue' = semValue
            /\ child' = [st EXCEPT ![w] = "woken"]

\* acquire() and release() written around run_task without try/finally
ReleasesOnSuccess(ok) == ok

\* "async with semaphore" releases when the block is left, whether run_task
\* returned (ok) or raised
ReleasesOnExit(ok) == TRUE

run_with_resource_management ==
    /\ callState = "init"
    /\ gather = "none"
    /\ max_concurrent > 0
    /\ semValue' = max_concurrent
    /\ waiters' = <<>>
    /\ GatherCreate(tasks)
    /\ callState' = "awaiting"
    /\ UNCHANGED <<log, retVal, excVal, tasks, max_concurrent>>
    /\ UNCHANGED notGatherVars

\* first step of child i: run_with_semaphore enters "async with semaphore";
\* with a free slot it goes on to run_task's await of to_thread, otherwise it
\* waits in the semaphore's queue
run_with_semaphore_start(i) ==
    /\ max_concurrent > 0
    /\ NextToStart(i)
    /\ IF SemLocked(semValue, waiters)
       THEN /\ waiters' = Append(waiters, i)
            /\ child' = [child EXCEPT ![i] = "waiting"]
            /\ UNCHANGED semValue
       ELSE /\ semValue' = semValue - 1
            /\ child' = [child EXCEPT ![i] = "running"]
            /\ UNCHANGED waiters
    /\ UNCHANGED <<log, callVars, tasks, childOut, gather, gatherVal, finishOrder, max_concurrent>>
    /\ UNCHANGED notGatherVars

\* child i, woken by a release, leaves acquire() and goes on to run_task
run_with_semaphore_admit(i) ==
    /\ max_concurrent > 0
    /\ AllStarted
    /\ child[i] = "woken"
    /\ waiters' = RemoveElem(waiters, i)
    /\ child' = [child EXCEPT ![i] = "running"]
    /\ UNCHANGED <<log, callVars, tasks, childOut, gather, gatherVal, finishOrder, max_concurrent, semValue>>
    /\ UNCHANGED notGatherVars

\* child i resumes from to_thread: run_task ends, the "async with" block is
\* left, the child ends; gather's callback follows
run_with_semaphore_resume(i) ==
    /\ max_concurrent > 0
    /\ NextToResume(i)
    /\ LET ok == child[i] = "threadok"
           st == [child EXCEPT ![i] = IF run_task_raises(ok) THEN "failed" ELSE "done"]
           out == [childOut EXCEPT ![i] = run_task_outcome(ok, tasks[i], i)]
       IN /\ log' = run_task_log(ok, tasks[i])
          /\ IF ReleasesOnExit(ok)
             THEN SemRelease(st)
             ELSE /\ child' = st
                  /\ UNCHANGED semValue
          /\ childOut' = out
          /\ GatherDone(i, ~ run_task_raises(ok), out[i], st, out)
    /\ UNCHANGED <<callVars, tasks, finishOrder, max_concurrent, waiters>>
    /\ UNCHANGED notGatherVars

\* run_with_resource_management resumes from its await of gather
run_with_resource_management_resume ==
    /\ max_concurrent > 0
    /\ callState = "awaiting"
    /\ gather \in {"result", "exception"}
    /\ IF gather = "result"
       THEN /\ callState' = "returned"
            /\ retVal' = gatherVal
            /\ UNCHANGED excVal
       ELSE /\ callState' = "raised"
            /\ excVal' = gatherVal
            /\ UNCHANGED retVal
    /\ UNCHANGED <<log, gatherVars, semVars>>
    /\ UNCHANGED notGatherVars

InitBounded ==
    /\ CallInit
    /\ tasks \in TaskLists
    /\ max_concurrent \in 1 .. MaxConcurrent
    /\ child = <<>>
    /\ childOut = <<>>
    /\ gather = "none"
    /\ gatherVal = None
    /\ finishOrder = <<>>
    /\ semValue = 0
    /\ waiters = <<>>
    /\ UnitIdle
    /\ RetryIdle
    /\ TimeoutIdle
    /\ DgIdle
    /\ RlIdle
    /\ PrIdle

NextBounded ==
    \/ run_with_resource_management
    \/ \E i \in Children : run_with_semaphore_start(i)
    \/ \E i \in Children : run_with_semaphore_admit(i)
    \/ \E i \in Children : UnitReturn(i)
    \/ \E i \in Children : UnitRaise(i)
    \/ \E i \in Children : run_with_semaphore_resume(i)
    \/ run_with_resource_management_resume

SpecBounded == InitBounded /\ [][NextBounded]_vars


\* ------------------------------------------------- wrappers of one unit
\* run_task up to its await: the unit is handed to a worker thread
SoloInvoke ==
    /\ thread' = "running"
    /\ invocations' = invocations + 1
    /\ UNCHANGED <<threadExc, finishedAt>>

\* the worker thread returns from the unit (also after the wrapper gave up
\* waiting for it)
SoloUnitReturn ==
    /\ thread = "running"
    /\ thread' = "ok"
    /\ finishedAt' = now
    /\ UNCHANGED <<log, callVars, task, threadExc, invocations, gatherVars, semVars, retryVars, timeoutVars, dgVars, rlVars, prVars, logger, umVars, ccVars>>

\* the unit raises an exception of class c in its worker thread
SoloUnitRaise(c) ==
    /\ thread = "running"
    /\ thread' = "fail"
    /\ threadExc' = ErrOf(c, task, invocations)
    /\ finishedAt' = now
    /\ UNCHANGED <<log, callVars, task, invocations, gatherVars, semVars, retryVars, timeoutVars, dgVars, rlVars, prVars, logger, umVars, ccVars>>

\* ------------------------------------------------------- run_with_retry
\* range(max_retries)
RetryAttempts(n) == 0 .. (n - 1)

\* a last-attempt test that is off by one
IsAfterLastAttempt(a, n) == a = n

\* "if attempt == max_retries - 1"
IsLastAttempt(a, n) == a = n - 1

\* a delay that doubles with every attempt
SleepDurationDoubling(d, a) == d * (2 ^ a)

\* the argument of asyncio.sleep after failed attempt a
SleepDuration(d, a) == d

\* the call: the loop's first iteration up to run_task's await, or the end
\* of a loop without iterations (the function then returns None)
run_with_retry ==
    /\ callState = "init"
    /\ max_retries >= 0
    /\ IF 0 \in RetryAttempts(max_retries)
       THEN /\ attempt' = 0
            /\ SoloInvoke
            /\ callState' = "awaiting"
            /\ UNCHANGED retVal
       ELSE /\ callState' = "returned"
            /\ retVal' = None
            /\ UNCHANGED <<attempt, thread, threadExc, invocations, finishedAt>>
    /\ UNCHANGED <<log, excVal, task, max_retries, retry_delay, sleeps>>
    /\ UNCHANGED notRetryVars

\* run_task resumes from to_thread: the value is returned, or the exception
\* is logged by run_task and handled by the except clause of the loop
run_with_retry_resume ==
    /\ callState = "awaiting"
    /\ max_retries > 0
    /\ thread \in {"ok", "fail"}
    /\ IF thread = "ok"
       THEN /\ callState' = "returned"
            /\ retVal' = run_task_outcome(TRUE, task, invocations)
            /\ UNCHANGED <<log, excVal, sleeps>>
       ELSE IF IsLastAttempt(attempt, max_retries)
       THEN /\ log' = Append(run_task_log(FALSE, task),
                             <<"error", "failed after attempts", max_retries>>)
            /\ callState' = "raised"
            /\ excVal' = threadExc
            /\ UNCHANGED <<retVal, sleeps>>
       ELSE /\ log' = Append(run_task_log(FALSE, task),
                             <<"warning", "failed, retrying", attempt + 1>>)
            /\ callState' = "sleeping"
            /\ sleeps' = Append(sleeps, SleepDuration(retry_delay, attempt))
            /\ UNCHANGED <<retVal, excVal>>
    /\ UNCHANGED <<unitVars, max_retries, retry_delay, attempt>>
    /\ UNCHANGED notRetryVars

\* asyncio.sleep is over: the next iteration up to run_task's await, or the
\* end of the loop
run_with_retry_wake ==
    /\ callState = "sleeping"
    /\ IF attempt + 1 \in RetryAttempts(max_retries)
       THEN /\ attempt' = attempt + 1
            /\ SoloInvoke
            /\ callState' = "awaiting"
            /\ UNCHANGED retVal
       ELSE /\ callState' = "returned"
            /\ retVal' = None
            /\ UNCHANGED <<attempt, thread, threadExc, invocations, finishedAt>>
    /\ UNCHANGED <<log, excVal, task, max_retries, retry_delay, sleeps>>
    /\ UNCHANGED notRetryVars

InitRetry ==
    /\ CallInit
    /\ GatherIdle
    /\ SemIdle
    /\ TimeoutIdle
    /\ DgIdle
    /\ RlIdle
    /\ PrIdle
    /\ task \in Units
    /\ thread = "none"
    /\ threadExc = None
    /\ invocations = 0
    /\ finishedAt = 0
    /\ max_retries \in 0 .. MaxRetries
    /\ retry_delay \in 0 .. MaxDelay
    /\ attempt = 0
    /\ sleeps = <<>>

NextRetry ==
    \/ run_with_retry
    \/ SoloUnitReturn
    \/ \E c \in ExceptionClasses : SoloUnitRaise(c)
    \/ run_with_retry_resume
    \/ run_with_retry_wake

SpecRetry == InitRetry /\ [][NextRetry]_vars

\* ------------------------------------------------------- run_with_timeout
\* an except clause that does not match what wait_for raises
TimeoutErrorEscapes == FALSE

\* "except asyncio.TimeoutError" catches the TimeoutError of wait_for
TimeoutErrorCaught == TRUE

\* a sentinel object of its own
TimedOutObject == Object("TimedOut", 0, 0)

\* what the wrapper returns after a timeout: "return None"
TimedOutResult == None

\* "except asyncio.TimeoutError": a warning is logged and the sentinel returned
OnTimeoutError(e) ==
    IF TimeoutErrorCaught
    THEN /\ log' = Append(log, <<"warning", "timed out after", timeout>>)
         /\ callState' = "returned"
         /\ retVal' = TimedOutResult
         /\ UNCHANGED excVal
    ELSE /\ callState' = "raised"
         /\ excVal' = e
         /\ UNCHANGED <<log, retVal>>

\* wait_for gives up at its deadline and raises TimeoutError
TimedOut ==
    /\ expired' = TRUE
    /\ OnTimeoutError(Object("TimeoutError", "wait_for", 0))

\* the call: wait_for with a timeout <= 0 cancels the coroutine of run_task
\* before it has run and raises TimeoutError; otherwise run_task runs up to
\* its await of to_thread
run_with_timeout ==
    /\ callState = "init"
    /\ IF timeout <= 0
       THEN /\ TimedOut
            /\ UNCHANGED <<thread, threadExc, invocations, finishedAt>>
       ELSE /\ SoloInvoke
            /\ callState' = "awaiting"
            /\ UNCHANGED <<log, retVal, excVal, expired>>
    /\ UNCHANGED <<task, timeout, now>>
    /\ UNCHANGED notTimeoutVars

\* time passes while the unit runs: up to the deadline while the wrapper
\* waits for it, and one step beyond once the wrapper has given up
Tick ==
    /\ thread = "running"
    /\ now < (IF callState = "awaiting" THEN timeout ELSE timeout + 1)
    /\ now' = now + 1
    /\ UNCHANGED <<log, callVars, unitVars, timeout, expired>>
    /\ UNCHANGED notTimeoutVars

\* the deadline fires before run_task has resumed: wait_for cancels the
\* wait (the worker thread is left running) and raises TimeoutError
Deadline ==
    /\ callState = "awaiting"
    /\ now = timeout
    /\ TimedOut
    /\ UNCHANGED <<unitVars, timeout, now>>
    /\ UNCHANGED notTimeoutVars

\* run_task resumes from to_thread before the deadline has fired: the value
\* is returned; an exception is logged by run_task, and the wrapper's except
\* clause takes it if it is a TimeoutError
run_with_timeout_resume ==
    /\ callState = "awaiting"
    /\ thread \in {"ok", "fail"}
    /\ IF thread = "ok"
       THEN /\ callState' = "returned"
            /\ retVal' = run_task_outcome(TRUE, task, invocations)
            /\ UNCHANGED <<log, excVal>>
       ELSE IF ClassOf(threadExc) = "TimeoutError"
       THEN IF TimeoutErrorCaught
            THEN /\ log' = Append(run_task_log(FALSE, task), <<"warning", "timed out after", timeout>>)
                 /\ callState' = "returned"
                 /\ retVal' = TimedOutResult
                 /\ UNCHANGED excVal
            ELSE /\ log' = run_task_log(FALSE, task)
                 /\ callState' = "raised"
                 /\ excVal' = threadExc
                 /\ UNCHANGED retVal
       ELSE /\ log' = run_task_log(FALSE, task)
            /\ callState' = "raised"
            /\ excVal' = threadExc
            /\ UNCHANGED retVal
    /\ UNCHANGED <<unitVars, timeoutVars>>
    /\ UNCHANGED notTimeoutVars

InitTimeout ==
    /\ CallInit
    /\ GatherIdle
    /\ SemIdle
    /\ RetryIdle
    /\ DgIdle
    /\ RlIdle
    /\ PrIdle
    /\ task \in Units
    /\ thread = "none"
    /\ threadExc = None
    /\ invocations = 0
    /\ finishedAt = 0
    /\ timeout \in 0 .. MaxTimeout
    /\ now = 0
    /\ expired = FALSE

NextTimeout ==
    \/ run_with_timeout
    \/ Tick
    \/ SoloUnitReturn
    \/ \E c \in ExceptionClasses : SoloUnitRaise(c)
    \/ Deadline
    \/ run_with_timeout_resume

SpecTimeout == InitTimeout /\ [][NextTimeout]_vars

\* ------------------------------------------- run_with_dependency_graph
\* The names of the tasks of the graph; the unit of task n returns Val(n).
TaskNames == {"A", "B", "C"}

\* the orders in which the dict tasks may hand out its keys
TaskOrders == {o \in [1 .. Cardinality(TaskNames) -> TaskNames] :
                  \A a, b \in DOMAIN o : a # b => o[a] # o[b]}

\* the lists of prerequisites: at most MaxDeps names, none twice
DepLists == UNION { {l \in [1 .. n -> TaskNames] : \A a, b \in 1 .. n : a # b => l[a] # l[b]}
                    : n \in 0 .. MaxDeps }

\* a run_task_with_deps that resolves no prerequisite
DepsIgnored(name) == <<>>

\* "deps = dependencies.get(task_name, [])"
DepsOf(name) == dependencies[name]

\* a run_task_with_deps without the test of results
NeverCached(name) == FALSE

\* "if task_name in results"
IsCached(name) == name \in DOMAIN results

\* a cycle that is passed over: the call returns as if the name were resolved
CycleIgnored == FALSE

\* "if task_name in in_progress: raise ValueError(...)"
RaisesOnCycle == TRUE

\* a name that stays in in_progress when its unit is done
InProgressKept(name) == in_progress

\* "in_progress.remove(task_name)"
InProgressRemove(name) == in_progress \ {name}

\* run_task_with_deps(name), called by caller, up to its first call or await:
\* a cached result is returned at once, a name in progress is a cycle,
\* otherwise the name is marked in progress and its frame pushed on rest,
\* the stack of the caller.
run_task_with_deps(caller, name, rest) ==
    /\ calls' = Append(calls, <<caller, name>>)
    /\ IF IsCached(name)
       THEN /\ stack' = rest
            /\ UNCHANGED <<in_progress, callState, excVal>>
       ELSE IF name \in in_progress
       THEN IF RaisesOnCycle
            THEN /\ callState' = "raised"
                 /\ excVal' = Object("ValueError", "Circular dependency detected for task", name)
                 /\ stack' = <<>>
                 /\ UNCHANGED in_progress
            ELSE /\ stack' = rest
                 /\ UNCHANGED <<in_progress, callState, excVal>>
       ELSE /\ in_progress' = in_progress \cup {name}
            /\ stack' = Append(rest, [name |-> name, dep |-> 1])
            /\ UNCHANGED <<callState, excVal>>

\* the call of run_with_dependency_graph: the two collections are created
run_with_dependency_graph ==
    /\ callState = "init"
    /\ dgOrder # <<>>
    /\ callState' = "running"
    /\ results' = <<>>
    /\ in_progress' = {}
    /\ topIdx' = 1
    /\ UNCHANGED <<log, retVal, excVal, dgOrder, dependencies, stack, dgThread, invoked, calls>>
    /\ UNCHANGED notDgVars

\* "for task_name in tasks: await run_task_with_deps(task_name)"
DgLoop ==
    /\ callState = "running"
    /\ stack = <<>>
    /\ topIdx <= Len(dgOrder)
    /\ run_task_with_deps("", dgOrder[topIdx], <<>>)
    /\ topIdx' = topIdx + 1
    /\ UNCHANGED <<log, retVal, dgOrder, dependencies, results, dgThread, invoked>>
    /\ UNCHANGED notDgVars

\* "for dep in deps: await run_task_with_deps(dep)" in the innermost call
DgResolveDep ==
    /\ callState = "running"
    /\ stack # <<>>
    /\ LET top == stack[Len(stack)]
           deps == DepsOf(top.name)
       IN /\ top.dep <= Len(deps)
          /\ run_task_with_deps(top.name, deps[top.dep],
                    [stack EXCEPT ![Len(stack)].dep = top.dep + 1])
    /\ UNCHANGED <<log, retVal, dgOrder, dependencies, results, topIdx, dgThread, invoked>>
    /\ UNCHANGED notDgVars

\* the prerequisites are resolved: run_task up to its await of to_thread
DgInvoke ==
    /\ callState = "running"
    /\ stack # <<>>
    /\ LET top == stack[Len(stack)]
       IN /\ top.dep > Len(DepsOf(top.name))
          /\ invoked' = Append(invoked, top.name)
    /\ dgThread' = "running"
    /\ callState' = "awaiting"
    /\ UNCHANGED <<log, retVal, excVal, dgOrder, dependencies, results, in_progress, stack, topIdx, calls>>
    /\ UNCHANGED notDgVars

DgUnitReturn ==
    /\ dgThread = "running"
    /\ dgThread' = "ok"
    /\ UNCHANGED <<log, callVars, dgOrder, dependencies, results, in_progress, stack, topIdx, invoked, calls>>
    /\ UNCHANGED notDgVars

DgUnitRaise ==
    /\ dgThread = "running"
    /\ dgThread' = "fail"
    /\ UNCHANGED <<log, callVars, dgOrder, dependencies, results, in_progress, stack, topIdx, invoked, calls>>
    /\ UNCHANGED notDgVars

\* run_task resumes: the result is cached, the name leaves in_progress and
\* the call returns; or the exception, logged by run_task, ends the run
DgResume ==
    /\ callState = "awaiting"
    /\ dgThread \in {"ok", "fail"}
    /\ LET name == stack[Len(stack)].name
       IN /\ log' = run_task_log(dgThread = "ok", name)
          /\ IF ~ run_task_raises(dgThread = "ok")
             THEN /\ results' = (name :> (IF dgThread = "ok" THEN Val(name) ELSE None)) @@ results
                  /\ in_progress' = InProgressRemove(name)
                  /\ stack' = SubSeq(stack, 1, Len(stack) - 1)
                  /\ callState' = "running"
                  /\ UNCHANGED excVal
             ELSE /\ callState' = "raised"
                  /\ excVal' = Err(name, 1)
                  /\ stack' = <<>>
                  /\ UNCHANGED <<results, in_progress>>
    /\ dgThread' = "none"
    /\ UNCHANGED <<retVal, dgOrder, dependencies, topIdx, invoked, calls>>
    /\ UNCHANGED notDgVars

\* "return results"
DgReturn ==
    /\ callState = "running"
    /\ stack = <<>>
    /\ topIdx > Len(dgOrder)
    /\ callState' = "returned"
    /\ retVal' = results
    /\ UNCHANGED <<log, excVal, dgVars>>
    /\ UNCHANGED notDgVars

InitDependencyGraph ==
    /\ CallInit
    /\ GatherIdle
    /\ SemIdle
    /\ UnitIdle
    /\ RetryIdle
    /\ TimeoutIdle
    /\ dgOrder \in TaskOrders
    /\ dependencies \in [TaskNames -> DepLists]
    /\ results = <<>>
    /\ in_progress = {}
    /\ stack = <<>>
    /\ topIdx = 0
    /\ dgThread = "none"
    /\ invoked = <<>>
    /\ calls = <<>>
    /\ RlIdle
    /\ PrIdle

NextDependencyGraph ==
    \/ run_with_dependency_graph
    \/ DgLoop
    \/ DgResolveDep
    \/ DgInvoke
    \/ DgUnitReturn
    \/ DgUnitRaise
    \/ DgResume
    \/ DgReturn

SpecDependencyGraph == InitDependencyGraph /\ [][NextDependencyGraph]_vars

\* ===================================================================
\* run_with_rate_limit
\* ===================================================================
\* the units of rl_tasks are told apart by their position: unit p returns
\* RetVal(p)
RlTaskLists == {[p \in 1 .. n |-> p] : n \in 0 .. MaxRlTasks}

\* a loop that sleeps after every batch
PauseAfterEveryBatch(i) == TRUE

\* "if i + rate_limit < len(tasks)"
MoreBatches(i) == i + rate_limit < Len(rl_tasks)

\* "batch = tasks[i:i+rate_limit]"
Batch(i) ==
    LET last == IF i + rate_limit < Len(rl_tasks) THEN i + rate_limit ELSE Len(rl_tasks)
    IN SubSeq(rl_tasks, i + 1, last)

\* results that keep the last batch only
ResultsReplaced(r, batch_results) == batch_results

\* "results.extend(batch_results)"
ResultsExtended(r, batch_results) == r \o batch_results

\* "batch_results = await self.run_in_parallel(batch, *args)" up to the await
\* of gather in run_in_parallel
RunBatch(i) ==
    /\ tasks' = Batch(i)
    /\ log' = Append(log, <<"info", "Running tasks in parallel", Len(Batch(i))>>)
    /\ GatherCreate(Batch(i))
    /\ callState' = "awaiting"

\* the call of run_with_rate_limit, up to its first await; range() refuses a
\* step of zero, and without tasks the loop body is never run
run_with_rate_limit ==
    /\ callState = "init"
    /\ rl_results' = <<>>
    /\ rl_i' = 0
    /\ IF rate_limit = 0
       THEN /\ callState' = "raised"
            /\ excVal' = Object("ValueError", "range() arg 3 must not be zero", 0)
            /\ UNCHANGED <<log, retVal, gatherVars>>
       ELSE IF Len(rl_tasks) = 0
       THEN /\ callState' = "returned"
            /\ retVal' = <<>>
            /\ UNCHANGED <<log, excVal, gatherVars>>
       ELSE /\ RunBatch(0)
            /\ UNCHANGED <<retVal, excVal>>
    /\ UNCHANGED <<rl_tasks, rate_limit, time_period, pauses, launched>>
    /\ UNCHANGED notRlVars

\* first step of child i of the batch: run_task up to its await of to_thread
rl_run_task_start(i) ==
    /\ NextToStart(i)
    /\ child' = [child EXCEPT ![i] = "running"]
    /\ launched' = Append(launched, rl_i + i)
    /\ UNCHANGED <<log, callVars, tasks, childOut, gather, gatherVal, finishOrder>>
    /\ UNCHANGED <<rl_tasks, rate_limit, time_period, rl_i, rl_results, pauses>>
    /\ UNCHANGED notRlVars

\* gather is done: run_in_parallel ends and run_with_rate_limit goes on to
\* its return or to its next await
run_with_rate_limit_resume ==
    /\ callState = "awaiting"
    /\ gather \in {"result", "exception"}
    /\ IF gather = "result"
       THEN LET done == Append(log, <<"info", "Parallel execution completed", Len(tasks)>>)
                res == ResultsExtended(rl_results, gatherVal)
            IN /\ rl_results' = res
               /\ IF MoreBatches(rl_i)
                  THEN /\ log' = Append(done, <<"info", "Rate limit reached", time_period>>)
                       /\ pauses' = Append(pauses, time_period)
                       /\ callState' = "sleeping"
                       /\ UNCHANGED retVal
                  ELSE /\ log' = done
                       /\ callState' = "returned"
                       /\ retVal' = res
                       /\ UNCHANGED pauses
               /\ UNCHANGED excVal
       ELSE /\ callState' = "raised"
            /\ excVal' = gatherVal
            /\ UNCHANGED <<log, retVal, rl_results, pauses>>
    /\ UNCHANGED <<gatherVars, rl_tasks, rate_limit, time_period, rl_i, launched>>
    /\ UNCHANGED notRlVars

\* asyncio.sleep(time_period) is over: the next turn of the loop
run_with_rate_limit_wake ==
    /\ callState = "sleeping"
    /\ rl_i' = rl_i + rate_limit
    /\ RunBatch(rl_i + rate_limit)
    /\ UNCHANGED <<retVal, excVal, rl_tasks, rate_limit, time_period, rl_results, pauses, launched>>
    /\ UNCHANGED notRlVars

InitRateLimit ==
    /\ CallInit
    /\ GatherIdle
    /\ SemIdle
    /\ UnitIdle
    /\ RetryIdle
    /\ TimeoutIdle
    /\ DgIdle
    /\ PrIdle
    /\ rl_tasks \in RlTaskLists
    /\ rate_limit \in 0 .. MaxRateLimit
    /\ time_period \in 1 .. MaxPeriod
    /\ rl_i = 0
    /\ rl_results = <<>>
    /\ pauses = <<>>
    /\ launched = <<>>

NextRateLimit ==
    \/ run_with_rate_limit
    \/ \E i \in Children : rl_run_task_start(i)
    \/ \E i \in Children : UnitReturn(i)
    \/ \E i \in Children : UnitRaise(i)
    \/ \E i \in Children : run_task_resume(i)
    \/ run_with_rate_limit_resume
    \/ run_with_rate_limit_wake

SpecRateLimit == InitRateLimit /\ [][NextRateLimit]_vars

\* ===================================================================
\* run_with_priority
\* ===================================================================
Priorities == 1 .. MaxPriority

Descriptor == [task : Units, priority : Priorities]

DescriptorLists == UNION {[1 .. n -> Descriptor] : n \in 0 .. MaxTasks}

\* a sort without reverse=True: ascending keys
KeyAscending(ka, kb) == ka < kb

\* "key=lambda x: x['priority'], reverse=True": the greater key comes first
KeyBefore(ka, kb) == ka > kb

\* sorted() is stable, with reverse=True too: of two elements with equal keys
\* the one that comes first in the list stays first
SortsBefore(ds, a, b) ==
    \/ KeyBefore(ds[a].priority, ds[b].priority)
    \/ ds[a].priority = ds[b].priority /\ a < b

\* "sorted(tasks, ...)", as the positions in ds of the elements of the
\* sorted list
Sorted(ds) ==
    [k \in DOMAIN ds |->
        CHOOSE a \in DOMAIN ds :
            Cardinality({b \in DOMAIN ds : SortsBefore(ds, b, a)}) = k - 1]

\* run_task(task_info['task']) up to its await of to_thread, for the element
\* at position k of the sorted list st
PrInvoke(st, k) ==
    /\ pr_pos' = k
    /\ pr_thread' = "running"
    /\ pr_trace' = Append(pr_trace, <<"invoked", st[k]>>)
    /\ callState' = "awaiting"

\* the call of run_with_priority, up to its first await
run_with_priority ==
    /\ callState = "init"
    /\ LET st == Sorted(descriptors)
       IN /\ sorted_tasks' = st
          /\ pr_results' = <<>>
          /\ IF st = <<>>
             THEN /\ callState' = "returned"
                  /\ retVal' = <<>>
                  /\ UNCHANGED <<pr_pos, pr_thread, pr_trace>>
             ELSE /\ PrInvoke(st, 1)
                  /\ UNCHANGED retVal
    /\ UNCHANGED <<log, excVal, descriptors>>
    /\ UNCHANGED notPrVars

PrUnitReturn ==
    /\ pr_thread = "running"
    /\ pr_thread' = "ok"
    /\ pr_trace' = Append(pr_trace, <<"completed", sorted_tasks[pr_pos]>>)
    /\ UNCHANGED <<log, callVars, descriptors, sorted_tasks, pr_results, pr_pos>>
    /\ UNCHANGED notPrVars

PrUnitRaise ==
    /\ pr_thread = "running"
    /\ pr_thread' = "fail"
    /\ pr_trace' = Append(pr_trace, <<"completed", sorted_tasks[pr_pos]>>)
    /\ UNCHANGED <<log, callVars, descriptors, sorted_tasks, pr_results, pr_pos>>
    /\ UNCHANGED notPrVars

\* a loop that goes on without waiting for the unit it has invoked
UnitNotAwaited(th) == TRUE

\* "result = await self.run_task(...)": the loop goes on when the worker
\* thread of the unit has finished
UnitAwaited(th) == th \in {"ok", "fail"}

\* run_task resumes: its result is appended and the loop goes on to its next
\* await or to the return; or the exception, logged by run_task, ends the run
run_with_priority_resume ==
    /\ callState = "awaiting"
    /\ UnitAwaited(pr_thread)
    /\ LET ok == pr_thread # "fail"
           p == sorted_tasks[pr_pos]
           u == descriptors[p].task
           res == Append(pr_results, run_task_outcome(ok, u, p))
       IN /\ log' = run_task_log(ok, u)
          /\ IF run_task_raises(ok)
             THEN /\ callState' = "raised"
                  /\ excVal' = run_task_outcome(ok, u, p)
                  /\ pr_thread' = "none"
                  /\ UNCHANGED <<retVal, pr_results, pr_pos, pr_trace>>
             ELSE /\ pr_results' = res
                  /\ IF pr_pos < Len(sorted_tasks)
                     THEN /\ PrInvoke(sorted_tasks, pr_pos + 1)
                          /\ UNCHANGED <<retVal, excVal>>
                     ELSE /\ callState' = "returned"
                          /\ retVal' = res
                          /\ pr_thread' = "none"
                          /\ UNCHANGED <<excVal, pr_pos, pr_trace>>
    /\ UNCHANGED <<descriptors, sorted_tasks>>
    /\ UNCHANGED notPrVars

InitPriority ==
    /\ CallInit
    /\ GatherIdle
    /\ SemIdle
    /\ UnitIdle
    /\ RetryIdle
    /\ TimeoutIdle
    /\ DgIdle
    /\ RlIdle
    /\ descriptors \in DescriptorLists
    /\ sorted_tasks = <<>>
    /\ pr_results = <<>>
    /\ pr_pos = 0
    /\ pr_thread = "none"
    /\ pr_trace = <<>>

NextPriority ==
    \/ run_with_priority
    \/ PrUnitReturn
    \/ PrUnitRaise
    \/ run_with_priority_resume

SpecPriority == InitPriority /\ [][NextPriority]_vars

\* ===================================================================
\* Properties of the Parallel Runner (SpecParallel)
\* ===================================================================
SomeUnitFailed == \E i \in Children : child[i] \in {"threadfail", "failed"}

Running == {i \in Children : child[i] = "running"}

\* the children in the order their units finished are not in submission order
OutOfOrderCompletion ==
    \E a, b \in DOMAIN finishOrder : a < b /\ finishOrder[a] > finishOrder[b]

\* C1: whenever run_in_parallel returns, it returns one result per unit of
\* tasks, the i-th being the value of the i-th unit, whatever the order in
\* which the units completed; it raises only if some unit failed, and a run
\* without a failure comes to rest only by returning.
C1_ParallelResultsInInputOrder ==
    /\ callState = "returned" =>
          /\ Len(retVal) = Len(tasks)
          /\ \A i \in 1 .. Len(tasks) : retVal[i] = RetVal(tasks[i])
    /\ callState = "raised" => SomeUnitFailed
    /\ (gather # "none" /\ ~ SomeUnitFailed /\ ~ ENABLED NextParallel) => callState = "returned"

\* C1 witness: a run of at least two units with different values that
\* completed out of submission order and returned
C1_Witness ==
    /\ callState = "returned"
    /\ max_concurrent = 0
    /\ Len(tasks) >= 2
    /\ RetVal(tasks[1]) # RetVal(tasks[2])
    /\ OutOfOrderCompletion

\* C2: once a unit has failed, run_in_parallel never returns a result list:
\* the gather future ends with the exception of a failed unit, the call
\* raises it, and a run that has come to rest after a failure has raised.
C2_ParallelFailsAsAWhole ==
    SomeUnitFailed =>
        /\ callState # "returned"
        /\ retVal = None
        /\ gather # "result"
        /\ callState = "raised" =>
              \E i \in Children : child[i] = "failed" /\ excVal = Err(tasks[i], i)
        /\ ~ ENABLED NextParallel => callState = "raised"

\* C2 witness: the call raised although a sibling had completed successfully
\* before the failure, and every unit has ended
C2_Witness ==
    /\ callState = "raised"
    /\ max_concurrent = 0
    /\ \E i, j \in Children :
          /\ child[i] = "done"
          /\ child[j] = "failed"
          /\ \E a, b \in DOMAIN finishOrder :
                a < b /\ finishOrder[a] = i /\ finishOrder[b] = j
    /\ \A i \in Children : child[i] \in {"done", "failed"}

\* ===================================================================
\* Properties of the Concurrency-Bounded Runner (SpecBounded)
\* ===================================================================
\* the children that hold a slot: admitted and not yet out of "async with"
Holders == {i \in Children : child[i] \in {"woken", "running", "threadok", "threadfail"}}

\* C3: at most max_concurrent units are running at any time, also after a
\* failure has been raised to the caller.
C3_AtMostKRunning ==
    max_concurrent > 0 => Cardinality(Running) <= max_concurrent

\* C3 witness: the caller has got the failure, more units were submitted
\* than slots exist, and the slots are all in use by running units
C3_Witness ==
    /\ max_concurrent > 0
    /\ callState = "raised"
    /\ Len(tasks) > max_concurrent
    /\ Cardinality(Running) = max_concurrent

\* C4: whenever run_with_resource_management returns, the i-th result is the
\* value of the i-th submitted unit, for every admission and completion order.
C4_BoundedResultsInSubmissionOrder ==
    (max_concurrent > 0 /\ callState = "returned") =>
        retVal = [i \in 1 .. Len(tasks) |-> RetVal(tasks[i])]

\* C4 witness: more units than slots, completed out of submission order
C4_Witness ==
    /\ callState = "returned"
    /\ max_concurrent > 0
    /\ Len(tasks) > max_concurrent
    /\ RetVal(tasks[1]) # RetVal(tasks[2])
    /\ OutOfOrderCompletion

\* C5: a unit runs only while its child holds a slot; free slots plus held
\* slots are always max_concurrent, so the free slots stay within
\* 0..max_concurrent, and with no slot held all max_concurrent are free
\* again, whether or not a unit failed.
C5_SlotsAccounted ==
    (max_concurrent > 0 /\ gather # "none") =>
        /\ semValue \in 0 .. max_concurrent
        /\ semValue + Cardinality(Holders) = max_concurrent
        /\ (\A i \in Children : child[i] \in {"done", "failed"}) => semValue = max_concurrent

\* C5 witness: every unit has ended, one of them by failing, after a unit had
\* to wait for a slot
C5_Witness ==
    /\ max_concurrent > 0
    /\ Len(tasks) > max_concurrent
    /\ \A i \in Children : child[i] \in {"done", "failed"}
    /\ \E i \in Children : child[i] = "failed"
    /\ semValue = max_concurrent

\* ===================================================================
\* Properties of the Retry Wrapper (SpecRetry)
\* ===================================================================
\* the failed attempts so far: run_task logs each of them
Failures == Cardinality({k \in DOMAIN log : log[k][2] = "Error in task"})

\* C6: with max_retries >= 1, whenever run_with_retry has returned, the unit
\* failed on its first j < max_retries attempts and succeeded on the next:
\* the success value is returned, the unit was invoked exactly j + 1 times
\* (none after the success) and exactly j sleeps were made, each of
\* retry_delay.
C6_RetryReturnsAfterJDelays ==
    (max_retries >= 1 /\ callState = "returned") =>
        /\ thread = "ok"
        /\ retVal = RetVal(task)
        /\ Failures < max_retries
        /\ invocations = Failures + 1
        /\ sleeps = [k \in 1 .. Failures |-> retry_delay]

\* C6 witness: max_retries = 3, two failures, then the success
C6_Witness ==
    /\ callState = "returned"
    /\ max_retries = 3
    /\ Failures = 2
    /\ invocations = 3
    /\ retry_delay > 0
    /\ Len(sleeps) = 2

\* C7: with max_retries = N >= 1 the unit is never invoked more than N
\* times; when all N attempts have failed the wrapper has raised, after
\* exactly N invocations and N - 1 sleeps, the exception of the N-th
\* invocation; and it raises in no other case.
C7_RetryRaisesAfterNAttempts ==
    max_retries >= 1 =>
        /\ invocations <= max_retries
        /\ Failures >= max_retries => callState = "raised"
        /\ callState = "raised" =>
              /\ Failures = max_retries
              /\ invocations = max_retries
              /\ Len(sleeps) = max_retries - 1
              /\ excVal = threadExc
              /\ ArgOf(excVal) = max_retries
              /\ retVal = None

\* C7 witness: three attempts, all failed, the third failure raised
C7_Witness ==
    /\ callState = "raised"
    /\ max_retries = 3
    /\ invocations = 3
    /\ Len(sleeps) = 2

\* ===================================================================
\* Properties of the Timeout Wrapper (SpecTimeout)
\* ===================================================================
\* C8: once the deadline has fired, run_with_timeout has returned None and
\* has raised nothing; this stays so when the unit, left running, finishes
\* later with a value or an exception.
C8_TimeoutReturnsSentinel ==
    expired =>
        /\ callState = "returned"
        /\ retVal = None
        /\ excVal = None

\* C8 witness: the unit returned a value other than None after the deadline
C8_Witness ==
    /\ expired
    /\ thread = "ok"
    /\ finishedAt > timeout
    /\ RetVal(task) # None
    /\ callState = "returned"

\* C9 as stated: a unit that completed before the deadline never makes the
\* wrapper return what it returns after a timeout.
C9_SentinelDistinctFromEveryValue ==
    (callState = "returned" /\ ~expired /\ thread = "ok") => retVal # TimedOutResult

\* C9 amended: a return value other than None tells the caller that the unit
\* completed with that value and that the deadline did not expire.
C9_NonNoneValueMeansCompleted ==
    (callState = "returned" /\ retVal # None) =>
        /\ ~expired
        /\ thread = "ok"
        /\ retVal = RetVal(task)

\* C9 witness: a unit completed with a value other than None
C9_Witness ==
    /\ callState = "returned"
    /\ timeout > 0
    /\ retVal # None
    /\ retVal = RetVal(task)

\* ===================================================================
\* Properties of the Dependency Graph Runner (SpecDependencyGraph)
\* ===================================================================
\* the elements of a sequence
Range(q) == {q[k] : k \in DOMAIN q}

\* the tasks that run_task_with_deps(n) has called, in order
CallsBy(n) ==
    LET mine == SelectSeq(calls, LAMBDA c : c[1] = n)
    IN [k \in DOMAIN mine |-> mine[k][2]]

IsPrefix(a, b) == Len(a) <= Len(b) /\ \A k \in DOMAIN a : a[k] = b[k]

\* C10: whenever the unit of a task has been invoked, the unit of each of its
\* declared prerequisites was invoked earlier and has completed successfully
\* (its result is cached); and each task resolves its prerequisites in their
\* listed order.
C10_PrerequisitesFirst ==
    dgOrder # <<>> =>
        /\ \A k \in DOMAIN invoked :
              \A d \in Range(dependencies[invoked[k]]) :
                 /\ d \in DOMAIN results
                 /\ \E j \in 1 .. (k - 1) : invoked[j] = d
        /\ \A n \in TaskNames : IsPrefix(CallsBy(n), dependencies[n])

\* C10 witness: with A: [B] and A first in the task set, the run returned
\* after B's unit and then A's unit were invoked
C10_Witness ==
    /\ callState = "returned"
    /\ dgOrder[1] = "A"
    /\ dependencies["A"] = <<"B">>
    /\ dependencies["B"] = <<>>
    /\ Len(invoked) >= 2
    /\ invoked[1] = "B"
    /\ invoked[2] = "A"

\* the tasks that the tasks of S list as prerequisites
Successors(S) == {b \in TaskNames : \E a \in S : b \in Range(dependencies[a])}

RECURSIVE Closure(_, _)
\* the tasks reached from S by at most k further steps along the map
Closure(S, k) == IF k = 0 THEN S ELSE Closure(S \cup Successors(S), k - 1)

\* n is reached from itself along the dependency map
OnCycle(n) == n \in Closure(Successors({n}), Cardinality(TaskNames))

Cyclic == \E n \in TaskNames : OnCycle(n)

Finished == callState \in {"returned", "raised"}

CycleDetected == callState = "raised" /\ ClassOf(excVal) = "ValueError"

\* C11 as stated: with a dependency map that contains a cycle, the run ends
\* by raising the cycle-detected error.
C11_CycleAlwaysDetected ==
    (dgOrder # <<>> /\ Cyclic /\ Finished) => CycleDetected

\* C11 amended: with a dependency map that contains a cycle the run never
\* returns, never invokes the unit of a task on a cycle and is never stuck
\* before it raises; the cycle-detected error names a task on a cycle; and the
\* run raises either that error or the failure of a unit, not on a cycle,
\* that was invoked before the cycle was met.
C11_CycleRaisesUnlessEarlierFailure ==
    (dgOrder # <<>> /\ Cyclic) =>
        /\ callState # "returned"
        /\ \A k \in DOMAIN invoked : ~ OnCycle(invoked[k])
        /\ ~ Finished => ENABLED NextDependencyGraph
        /\ CycleDetected => OnCycle(ArgOf(excVal))
        /\ callState = "raised" =>
              \/ CycleDetected
              \/ /\ invoked # <<>>
                 /\ excVal = Err(invoked[Len(invoked)], 1)

\* C11 witness: with A: [B] and B: [A] the run raised the cycle-detected
\* error after the unit of C, on no cycle, completed
C11_Witness ==
    /\ CycleDetected
    /\ dependencies["A"] = <<"B">>
    /\ dependencies["B"] = <<"A">>
    /\ ArgOf(excVal) \in {"A", "B"}
    /\ invoked = <<"C">>

\* the event loop runs every coroutine that is ready and every invoked unit
\* comes to an end
SpecDependencyGraphFair == SpecDependencyGraph /\ WF_vars(NextDependencyGraph)

\* with an acyclic map: no cycle-detected error, a returned collection has the
\* result of every task of the task set and in_progress is empty by then, and
\* the run raises only the failure of the unit invoked last
AcyclicRunOutcome ==
    (dgOrder # <<>> /\ ~ Cyclic) =>
        /\ ~ CycleDetected
        /\ callState = "returned" =>
              /\ DOMAIN retVal = TaskNames
              /\ \A n \in TaskNames : retVal[n] = Val(n)
              /\ in_progress = {}
        /\ callState = "raised" =>
              /\ invoked # <<>>
              /\ excVal = Err(invoked[Len(invoked)], 1)
              /\ Failures = 1

\* C12: given an acyclic dependency map, the cycle-detected error is never
\* raised; the run terminates, and when all units succeed it terminates by
\* returning a result for every task of the task set, with the in-progress set
\* empty at the end.
C12_AcyclicRunCompletes ==
    /\ [] AcyclicRunOutcome
    /\ ~ Cyclic => <> Finished
    /\ ~ Cyclic => [] ((Finished /\ Failures = 0) => callState = "returned")

\* C12 witness: the acyclic map A: [B, C], B: [C], C: [] returned
C12_Witness ==
    /\ callState = "returned"
    /\ dependencies["A"] = <<"B", "C">>
    /\ dependencies["B"] = <<"C">>
    /\ dependencies["C"] = <<>>
    /\ DOMAIN retVal = TaskNames
    /\ in_progress = {}

\* C13: if the unit of some task fails during resolution, the run raises that
\* failure to its caller and returns no result mapping, whatever results were
\* cached by then; and from the failure on no further unit is invoked.
C13_FailureAbortsResolution ==
    /\ [] (Failures > 0 =>
              /\ callState = "raised"
              /\ excVal = Err(invoked[Len(invoked)], 1)
              /\ retVal = None
              /\ ~ ENABLED NextDependencyGraph)
    /\ [] (dgThread = "fail" => ENABLED DgResume)
    /\ [][(dgThread = "fail" \/ Failures > 0) => invoked' = invoked]_vars
    /\ [][dgThread = "fail" => (callState' = "raised" /\ Failures' = 1)]_vars

\* C13 witness: the run raised the failure of a unit when a result was cached
\* and the unit of another task had not been invoked
C13_Witness ==
    /\ callState = "raised"
    /\ Failures = 1
    /\ excVal = Err(invoked[Len(invoked)], 1)
    /\ results # <<>>
    /\ Len(invoked) = 2
    /\ ~ CycleDetected

\* the result mapping of a run whose units are deterministic: a function of
\* the task set alone, not of the order in which the task set is iterated
ResultsOfTaskSet == [n \in TaskNames |-> Val(n)]

\* the number of times the unit of task n was invoked
TimesInvoked(n) == Cardinality({k \in DOMAIN invoked : invoked[k] = n})

\* C14: for a fixed acyclic dependency map, a run returns the same result
\* mapping (same keys, same value per key) whatever the order in which it
\* iterates the task set, so any two runs return identical mappings; and in
\* every such run the unit of every task is invoked exactly once.
C14_ResultsIndependentOfIterationOrder ==
    /\ \A n \in TaskNames : TimesInvoked(n) <= 1
    /\ (callState = "returned" /\ ~ Cyclic) =>
          /\ retVal = ResultsOfTaskSet
          /\ \A n \in TaskNames : TimesInvoked(n) = 1

\* C14 witness: with A: [C] and B: [C], a run that iterates the task set in
\* the order B, A, C returned after it invoked the units in the order C, B, A
C14_Witness ==
    /\ callState = "returned"
    /\ dependencies["A"] = <<"C">>
    /\ dependencies["B"] = <<"C">>
    /\ dependencies["C"] = <<>>
    /\ dgOrder = <<"B", "A", "C">>
    /\ invoked = <<"C", "B", "A">>
    /\ retVal = ResultsOfTaskSet

\* ===================================================================
\* Properties of the Rate-Limited Batcher (SpecRateLimit)
\* ===================================================================
\* the number of groups of at most B units that n units make
Groups(n, B) == (n + B - 1) \div B

\* C15: for n >= 1 units and a batch size B >= 1, the run pauses once, for
\* time_period, after each group but the last: it has paused g - 1 times
\* while group g runs and g times while it sleeps after group g, never more
\* than ceil(n / B) - 1 times, and exactly ceil(n / B) - 1 times when it
\* returns; so n <= B gives no pause.
C15_PausesBetweenGroupsOnly ==
    (Len(rl_tasks) >= 1 /\ rate_limit >= 1) =>
        /\ \A k \in DOMAIN pauses : pauses[k] = time_period
        /\ Len(pauses) <= Groups(Len(rl_tasks), rate_limit) - 1
        /\ callState = "awaiting" => Len(pauses) * rate_limit = rl_i
        /\ callState = "sleeping" => (Len(pauses) - 1) * rate_limit = rl_i
        /\ callState = "returned" =>
              Len(pauses) = Groups(Len(rl_tasks), rate_limit) - 1
        /\ Len(rl_tasks) <= rate_limit => pauses = <<>>

\* C15 witness: 5 units with batch size 2 returned after exactly 2 pauses
C15_Witness ==
    /\ callState = "returned"
    /\ Len(rl_tasks) = 5
    /\ rate_limit = 2
    /\ Len(pauses) = 2
    /\ rl_i = 4

\* C16: when run_with_rate_limit returns, the i-th result is the value of the
\* i-th submitted unit and there are n results; the results accumulated at
\* any time are those of the first units in submission order; every unit is
\* invoked at most once, and exactly once by the time the run returns; and
\* each group is the next consecutive slice of at most B units, only the last
\* being smaller.
C16_RateLimitResultsInSubmissionOrder ==
    rate_limit >= 1 =>
        /\ \A k \in DOMAIN rl_results :
              k <= Len(rl_tasks) /\ rl_results[k] = RetVal(rl_tasks[k])
        /\ \A a, b \in DOMAIN launched : a # b => launched[a] # launched[b]
        /\ callState = "returned" =>
              /\ Len(retVal) = Len(rl_tasks)
              /\ \A p \in DOMAIN rl_tasks : retVal[p] = RetVal(rl_tasks[p])
              /\ \A p \in DOMAIN rl_tasks : \E a \in DOMAIN launched : launched[a] = p
        /\ callState = "awaiting" =>
              /\ rl_i % rate_limit = 0
              /\ Len(rl_results) = rl_i
              /\ Len(tasks) \in 1 .. rate_limit
              /\ \A j \in DOMAIN tasks : tasks[j] = rl_tasks[rl_i + j]
              /\ Len(tasks) < rate_limit => rl_i + Len(tasks) = Len(rl_tasks)

\* C16 witness: 5 units in groups of 3 returned, the units of the last group
\* having completed in the reverse of their submission order
C16_Witness ==
    /\ callState = "returned"
    /\ Len(rl_tasks) = 5
    /\ rate_limit = 3
    /\ finishOrder = <<2, 1>>
    /\ Len(retVal) = 5
    /\ retVal[4] = RetVal(4)
    /\ retVal[5] = RetVal(5)

\* ===================================================================
\* Properties of the Priority Scheduler (SpecPriority)
\* ===================================================================
\* the places in pr_trace of the given event
EventAt(e) == {k \in DOMAIN pr_trace : pr_trace[k] = e}

\* the descriptor at position a is to be executed before the one at b
ExecutesBefore(a, b) ==
    \/ descriptors[a].priority > descriptors[b].priority
    \/ descriptors[a].priority = descriptors[b].priority /\ a < b

\* C17: the units are executed in order of descending priority and, among
\* descriptors of equal priority, in submission order: when the unit of a
\* descriptor is invoked, the unit of every descriptor that is to be executed
\* before it was invoked earlier and has completed; every unit is invoked at
\* most once, and a run that returns has invoked them all.
C17_DescendingPriorityStable ==
    /\ \A b \in DOMAIN descriptors :
          /\ Cardinality(EventAt(<<"invoked", b>>)) <= 1
          /\ \A kb \in EventAt(<<"invoked", b>>) :
                \A a \in DOMAIN descriptors :
                   ExecutesBefore(a, b) =>
                      \E ia, ca \in 1 .. (kb - 1) :
                         /\ ia < ca
                         /\ pr_trace[ia] = <<"invoked", a>>
                         /\ pr_trace[ca] = <<"completed", a>>
    /\ callState = "returned" =>
          \A a \in DOMAIN descriptors : EventAt(<<"invoked", a>>) # {}

\* C17 witness: with [X priority 1, Y priority 2, Z priority 2] the units of
\* Y and then of Z were invoked and completed before the unit of X was invoked
C17_Witness ==
    /\ callState = "returned"
    /\ Len(descriptors) = 3
    /\ descriptors[1].priority = 1
    /\ descriptors[2].priority = 2
    /\ descriptors[3].priority = 2
    /\ pr_trace = << <<"invoked", 2>>, <<"completed", 2>>,
                     <<"invoked", 3>>, <<"completed", 3>>,
                     <<"invoked", 1>>, <<"completed", 1>> >>

\* C18 as stated, for the Priority Scheduler: the i-th element of the result
\* is the outcome of the i-th submitted descriptor, whatever the priorities.
C18_PriorityResultsInSubmissionOrder ==
    callState = "returned" =>
        /\ Len(retVal) = Len(descriptors)
        /\ \A p \in DOMAIN descriptors : retVal[p] = RetVal(descriptors[p].task)

\* what run_with_priority returns: the results in the order of execution
C18_PriorityResultsInExecutionOrder ==
    callState = "returned" =>
        /\ Len(retVal) = Len(descriptors)
        /\ \A k \in DOMAIN sorted_tasks :
              retVal[k] = RetVal(descriptors[sorted_tasks[k]].task)

\* ===================================================================
\* Properties of the Unit Invoker (run_task under SpecParallel)
\* ===================================================================
\* run_task has ended for child i in this step
RunTaskEnds(i) ==
    /\ i \in Children
    /\ child[i] \in {"threadok", "threadfail"}
    /\ child'[i] # child[i]

\* C19: a failure of the unit is never swallowed: when the unit of child i
\* raised, run_task appends one error entry to the log and ends by raising
\* the unit's failure; run_task ends with a value only when the unit returned
\* it; and what run_in_parallel raises to its caller is the failure of a unit.
C19_RunTaskNeverSwallows ==
    /\ [] (\A i \in Children :
              /\ child[i] = "done" => childOut[i] = RetVal(tasks[i])
              /\ child[i] = "failed" => childOut[i] = Err(tasks[i], i))
    /\ [] (Failures = Cardinality({i \in Children : child[i] = "failed"}))
    /\ [] (callState = "raised" =>
              \E i \in Children : child[i] = "failed" /\ excVal = Err(tasks[i], i))
    /\ [][\A i \in Children :
             RunTaskEnds(i) =>
                IF child[i] = "threadfail"
                THEN /\ child'[i] = "failed"
                     /\ childOut'[i] = Err(tasks[i], i)
                     /\ log' = Append(log, <<"error", "Error in task", tasks[i]>>)
                ELSE /\ child'[i] = "done"
                     /\ childOut'[i] = RetVal(tasks[i])
                     /\ log' = log]_vars

\* C19 witness: the unit of the second of two children raised after the first
\* had returned; run_task logged the error and the run raised that failure
C19_Witness ==
    /\ callState = "raised"
    /\ Len(tasks) = 2
    /\ child = <<"done", "failed">>
    /\ childOut[1] = RetVal(tasks[1])
    /\ excVal = Err(tasks[2], 2)
    /\ Failures = 1

\* ===================================================================
\* Logging (SpecLoggerRaises)
\* ===================================================================
\* C20 as stated, for the Parallel Runner: whether or not calls of the
\* logger raise, the run invokes every unit, raises only the failure of a
\* unit, and returns the units' values when no unit failed, as it does with a
\* logger that works.
C20_LoggerFailureChangesNothing ==
    /\ callState = "raised" =>
          \E i \in Children : child[i] = "failed" /\ excVal = Err(tasks[i], i)
    /\ callState \in {"returned", "raised"} => (Children = DOMAIN tasks /\ AllStarted)
    /\ (~ SomeUnitFailed /\ ~ ENABLED NextParallel) =>
          /\ callState = "returned"
          /\ Len(retVal) = Len(tasks)
          /\ \A i \in DOMAIN tasks : retVal[i] = RetVal(tasks[i])

\* ===================================================================
\* Log entries of the Unit Invoker (run_task under SpecParallel)
\* ===================================================================
\* the places in the log of the entries that run_task wrote: those that
\* run_in_parallel did not write
RunTaskEntries ==
    {k \in DOMAIN log :
        log[k][2] \notin {"Running tasks in parallel", "Parallel execution completed"}}

Invoked == {i \in Children : child[i] # "ready"}

Ended == {i \in Children : child[i] \in {"done", "failed"}}

\* C21 as stated: run_task writes one log entry when it is entered and one
\* more when it ends, with a value or with a failure.
C21_EntryAndOutcomeLogged ==
    Cardinality(RunTaskEntries) = Cardinality(Invoked) + Cardinality(Ended)

\* C21 amended: run_task writes no log entry when it is entered and none when
\* the unit returns; it writes exactly one entry, an error entry naming the
\* unit, when the unit raises.  So the entries of run_task in the log are
\* one error entry per failed invocation, and a successful invocation leaves
\* the log as it was.
C21_OnlyFailuresLogged ==
    /\ [] (/\ Cardinality(RunTaskEntries) = Cardinality({i \in Children : child[i] = "failed"})
           /\ \A k \in RunTaskEntries : log[k][1] = "error" /\ log[k][2] = "Error in task")
    /\ [][\A i \in Children :
             /\ (child[i] = "ready" /\ child'[i] # "ready") => log' = log
             /\ (child[i] = "threadok" /\ child'[i] = "done") => log' = log
             /\ (child[i] = "threadfail" /\ child'[i] = "failed") =>
                    log' = Append(log, <<"error", "Error in task", tasks[i]>>)]_vars

\* C21 witness: two units were invoked and returned, and the log holds the
\* two entries of run_in_parallel only
C21_Witness ==
    /\ callState = "returned"
    /\ Len(tasks) = 2
    /\ child = <<"done", "done">>
    /\ Len(log) = 2
    /\ RunTaskEntries = {}

\* ===================================================================
\* Further properties of the Dependency Graph Runner
\* ===================================================================
\* the number of times run_task_with_deps was called for task n
TimesResolved(n) == Cardinality({k \in DOMAIN calls : calls[k][2] = n})

\* run_task_with_deps is called in this step for a task whose result is cached
ResolvesCached ==
    /\ Len(calls') = Len(calls) + 1
    /\ calls'[Len(calls')][2] \in DOMAIN results

\* C22: within one run the unit of a task is invoked at most once, however
\* often the task is resolved (as a prerequisite of several tasks and by the
\* loop over the task set), and only by a resolution of that task; a
\* resolution of a task whose result is cached returns at once: no unit is
\* invoked, no result changes, nothing is raised.
C22_UnitInvokedAtMostOnce ==
    /\ [] (\A n \in TaskNames :
              /\ TimesInvoked(n) <= 1
              /\ TimesInvoked(n) <= TimesResolved(n))
    /\ [][ResolvesCached =>
             /\ invoked' = invoked
             /\ dgThread' = dgThread
             /\ results' = results
             /\ in_progress' = in_progress
             /\ callState' = callState]_vars

\* C22 witness: with A: [C] and B: [C], C was resolved three times, for A,
\* for B and by the loop over the task set, and its unit was invoked once
C22_Witness ==
    /\ callState = "returned"
    /\ dependencies["A"] = <<"C">>
    /\ dependencies["B"] = <<"C">>
    /\ dependencies["C"] = <<>>
    /\ TimesResolved("C") = 3
    /\ TimesInvoked("C") = 1

\* the state of task n: Pending until it is marked in in_progress, Done once
\* its result is cached
TaskState(n) ==
    IF n \in DOMAIN results THEN "Done"
    ELSE IF n \in in_progress THEN "InProgress"
    ELSE "Pending"

\* the task whose unit is in flight, if any
InFlight == IF dgThread = "none" THEN {} ELSE {stack[Len(stack)].name}

\* C23: per task the state only moves Pending -> InProgress -> Done, and
\* stays InProgress when the run aborts; no task is in in_progress and cached
\* in results at once; a cached result never goes away or changes; and the
\* unit of a task is invoked, and in flight, only while the task is
\* InProgress.
C23_TaskStateMachine ==
    /\ [] (in_progress \cap DOMAIN results = {})
    /\ [] (\A n \in InFlight : TaskState(n) = "InProgress")
    /\ [] ((callState = "raised" /\ ~ CycleDetected) =>
              TaskState(invoked[Len(invoked)]) = "InProgress")
    /\ [][\A n \in TaskNames :
             /\ TaskState(n)' # TaskState(n) =>
                   \/ TaskState(n) = "Pending" /\ TaskState(n)' = "InProgress"
                   \/ TaskState(n) = "InProgress" /\ TaskState(n)' = "Done"
             /\ TaskState(n) = "Done" => results'[n] = results[n]
             /\ TimesInvoked(n)' > TimesInvoked(n) =>
                   TaskState(n) = "InProgress" /\ TaskState(n)' = "InProgress"]_vars

\* C23 witness: the run aborted on the failure of a unit with one task Done,
\* one InProgress for ever and one still Pending
C23_Witness ==
    /\ callState = "raised"
    /\ ~ CycleDetected
    /\ \E a, b, c \in TaskNames :
          /\ TaskState(a) = "Done"
          /\ TaskState(b) = "InProgress"
          /\ TaskState(c) = "Pending"

\* ===================================================================
\* Further properties of the Priority Scheduler
\* ===================================================================
\* the units in flight after the first k events of pr_trace: invoked and not
\* completed
InFlightAfter(k) ==
    {p \in DOMAIN descriptors :
        /\ \E a \in 1 .. k : pr_trace[a] = <<"invoked", p>>
        /\ ~ \E b \in 1 .. k : pr_trace[b] = <<"completed", p>>}

\* C24: execution is strictly sequential: at every point of a run at most
\* one unit is in flight, and the events of the run are, for the descriptors
\* in sorted order one after the other, the invocation of its unit followed
\* by its completion; so the unit of the (i+1)-th descriptor in sorted order
\* is invoked only after the unit of the i-th has completed.
C24_StrictlySequential ==
    /\ \A k \in 0 .. Len(pr_trace) : Cardinality(InFlightAfter(k)) <= 1
    /\ (pr_thread = "running") <=> (InFlightAfter(Len(pr_trace)) # {})
    /\ Len(pr_trace) <= 2 * Len(sorted_tasks)
    /\ \A k \in DOMAIN pr_trace :
          pr_trace[k] = IF k % 2 = 1
                        THEN <<"invoked", sorted_tasks[(k + 1) \div 2]>>
                        ELSE <<"completed", sorted_tasks[k \div 2]>>

\* C24 witness: of three descriptors the second in sorted order is in flight,
\* the first has completed and the third has not been invoked
C24_Witness ==
    /\ Len(descriptors) = 3
    /\ pr_thread = "running"
    /\ pr_pos = 2
    /\ Len(pr_trace) = 3
    /\ InFlightAfter(3) = {sorted_tasks[2]}

\* ===================================================================
\* Further properties of the Rate-Limited Batcher
\* ===================================================================
\* the group of the unit at position p of rl_tasks, counted from 0
GroupOf(p) == (p - 1) \div rate_limit

\* the positions in rl_tasks of the units in flight
RlInFlight == {rl_i + j : j \in Running}

\* C25: waves never overlap: at every instant at most B units are in flight
\* and they all belong to the group being run; units are invoked group after
\* group; nothing is in flight during a pause; and a group is started only
\* by the end of the pause that follows the group before it, when every unit
\* of that group has completed and one pause has been made for every group
\* before the new one.
C25_WavesNeverOverlap ==
    /\ [] (rate_limit >= 1 =>
              /\ Cardinality(RlInFlight) <= rate_limit
              /\ \A p \in RlInFlight : GroupOf(p) = rl_i \div rate_limit
              /\ \A a, b \in DOMAIN launched :
                    a < b => GroupOf(launched[a]) <= GroupOf(launched[b])
              /\ \A a \in DOMAIN launched : GroupOf(launched[a]) <= Len(pauses)
              /\ callState = "sleeping" => \A j \in Children : child[j] = "done")
    /\ [][rl_i' # rl_i =>
             /\ callState = "sleeping"
             /\ \A j \in Children : child[j] = "done"
             /\ rl_i' = rl_i + rate_limit
             /\ Len(pauses) * rate_limit = rl_i'
             /\ \A j \in DOMAIN child' : child'[j] = "ready"]_vars
    /\ [][launched' # launched =>
             \E p \in DOMAIN rl_tasks :
                /\ launched' = Append(launched, p)
                /\ GroupOf(p) = rl_i \div rate_limit
                /\ callState = "awaiting"]_vars

\* C25 witness: of 5 units in groups of 2, both units of the second group are
\* in flight after one pause, and no unit of the third group has been invoked
C25_Witness ==
    /\ Len(rl_tasks) = 5
    /\ rate_limit = 2
    /\ RlInFlight = {3, 4}
    /\ Len(pauses) = 1
    /\ launched = <<1, 2, 3, 4>>

\* C28: if a unit of group g fails, the run raises that failure to its
\* caller and returns nothing, the results of the groups before g being
\* dropped with it; it never pauses after group g and never invokes a unit
\* of a later group; and once it has raised nothing of this changes.
C28_RateLimitFailureAborts ==
    /\ [] ((rate_limit >= 1 /\ SomeUnitFailed) =>
              /\ callState \in {"awaiting", "raised"}
              /\ retVal = None
              /\ Len(pauses) * rate_limit = rl_i
              /\ Len(rl_results) = rl_i
              /\ \A a \in DOMAIN launched : GroupOf(launched[a]) <= rl_i \div rate_limit
              /\ ~ ENABLED NextRateLimit => callState = "raised")
    /\ [] ((rate_limit >= 1 /\ callState = "raised") =>
              \E j \in Children : child[j] = "failed" /\ excVal = Err(tasks[j], j))
    /\ [][callState = "raised" =>
             /\ callState' = "raised"
             /\ excVal' = excVal
             /\ retVal' = None
             /\ pauses' = pauses
             /\ launched' = launched
             /\ rl_i' = rl_i]_vars

\* C28 witness: of 5 units in groups of 2, a unit of the second group failed:
\* the run raised with the two results of the first group accumulated, after
\* the one pause before the second group, and the fifth unit was not invoked
C28_Witness ==
    /\ callState = "raised"
    /\ Len(rl_tasks) = 5
    /\ rate_limit = 2
    /\ rl_i = 2
    /\ Len(rl_results) = 2
    /\ Len(pauses) = 1
    /\ launched = <<1, 2, 3, 4>>
    /\ \A j \in Children : child[j] \in {"done", "failed"}

\* ===================================================================
\* Liveness of the Concurrency-Bounded Runner
\* ===================================================================
\* the event loop runs every coroutine that is ready, and every unit that
\* was invoked comes to an end
SpecBoundedFair == SpecBounded /\ WF_vars(NextBounded)

\* child i is waiting for a slot of the semaphore
WaitsForSlot(i) == i \in Children /\ child[i] \in {"waiting", "woken"}

\* the unit of child i has been invoked
UnitInvoked(i) ==
    i \in Children /\ child[i] \in {"running", "threadok", "threadfail", "done", "failed"}

\* C26: under fair scheduling and units that terminate, for every
\* max_concurrent >= 1: every submitted unit is eventually invoked and comes
\* to its end, a unit that waits for a slot is eventually admitted, no unit
\* waits while a slot is free and no coroutine is ready to take it, and the
\* run eventually completes.
C26_EveryUnitEventuallyAdmitted ==
    /\ \A i \in 1 .. MaxTasks :
          /\ <> (i > Len(tasks) \/ UnitInvoked(i))
          /\ <> (i > Len(tasks) \/ (i \in Children /\ child[i] \in {"done", "failed"}))
          /\ WaitsForSlot(i) ~> UnitInvoked(i)
    /\ [] ((\E i \in Children : child[i] = "waiting") => semValue = 0)
    /\ <> (callState \in {"returned", "raised"})
    /\ <> [] (callState \in {"returned", "raised"} /\ semValue = max_concurrent)

\* C26 witness: with max_concurrent = 1 and three units the run returned,
\* after the third unit had waited for a slot while the first was running
C26_Witness ==
    /\ callState = "returned"
    /\ max_concurrent = 1
    /\ Len(tasks) = 3
    /\ \A i \in Children : child[i] = "done"
    /\ semValue = 1

\* ===================================================================
\* Failure path of the Timeout Wrapper (SpecTimeout)
\* ===================================================================
\* the unit raised in its worker thread before the deadline
FailedBeforeDeadline == thread = "fail" /\ finishedAt < timeout

\* C29 as stated: if the unit raises before the deadline, the wrapper raises
\* that failure and does not return the TimedOut sentinel; after a failure of
\* the unit the wrapper returns only if the deadline had expired.
C29_UnitFailureNeverReportedAsTimeout ==
    /\ (FailedBeforeDeadline /\ callState \in {"returned", "raised"}) =>
          /\ callState = "raised"
          /\ excVal = threadExc
    /\ (callState = "returned" /\ thread = "fail") => expired

\* what holds of run_with_timeout: a failure of the unit before the deadline
\* is raised to the caller unless its class is TimeoutError; then the wrapper
\* takes it for the timeout of wait_for and returns None
C29_FailureRaisedUnlessTimeoutError ==
    (FailedBeforeDeadline /\ callState \in {"returned", "raised"}) =>
        IF ClassOf(threadExc) = "TimeoutError"
        THEN callState = "returned" /\ retVal = None /\ ~ expired
        ELSE callState = "raised" /\ excVal = threadExc

\* ------------------------------------------------------- UndoManager
\* undo_manager.py.  The calls of one UndoManager are made one after the
\* other: each is awaited before the next is made.

\* the number of calls made to the UndoManager
MaxCalls == 5

\* self.max_undo_steps (50 in the source), scaled down so that the oldest
\* entry is dropped within MaxCalls calls
max_undo_steps == 2

\* the actions given to execute_action, by __name__: create_file has an undo
\* function of its own, other gets the default one and a warning
ActionNames == {"create_file", "other"}

\* the dictionary create_undo_action returns for the serial-th call: two
\* calls with the same action make two entries
UndoEntry(name, serial) == <<name, serial>>

\* a stack that takes its entries at the bottom
PushBottom(lst, e) == <<e>> \o lst

\* list.append
Push(lst, e) == Append(lst, e)

\* list.pop(): the entry removed and the list left
Top(lst) == lst[Len(lst)]
Pop(lst) == SubSeq(lst, 1, Len(lst) - 1)

\* "if len(self.undo_stack) > self.max_undo_steps: self.undo_stack.pop(0)"
Trimmed(lst) == IF Len(lst) > max_undo_steps THEN Tail(lst) ELSE lst

\* the call just completed is recorded; the two latest are kept
Completed(method, outcome) ==
    LET all == Append(um_last, <<method, outcome>>)
    IN  IF Len(all) > 2 THEN Tail(all) ELSE all

\* execute_action up to "await asyncio.to_thread(action, ...)"
execute_action ==
    /\ um_call = "idle"
    /\ um_calls < MaxCalls
    /\ \E name \in ActionNames :
          um_entry' = UndoEntry(name, um_calls + 1)
    /\ um_call' = "execute_action"
    /\ um_thread' = "running"
    /\ um_calls' = um_calls + 1
    /\ UNCHANGED <<log, undo_stack, redo_stack, um_last, um_before, notUmVars>>

\* the worker thread of the call in progress ends
UmUnitReturn ==
    /\ um_thread = "running"
    /\ um_thread' = "ok"
    /\ UNCHANGED <<log, undo_stack, redo_stack, um_call, um_entry, um_calls, um_last,
                   um_before, notUmVars>>

UmUnitRaise ==
    /\ um_thread = "running"
    /\ um_thread' = "fail"
    /\ UNCHANGED <<log, undo_stack, redo_stack, um_call, um_entry, um_calls, um_last,
                   um_before, notUmVars>>

\* execute_action after its await: the entry is made (get_undo_function warns
\* of an action it does not know) and pushed, the oldest entry is dropped
\* above max_undo_steps and the redo stack is cleared; or the error is logged
\* and raised again
execute_action_resume ==
    /\ um_call = "execute_action"
    /\ um_thread \in {"ok", "fail"}
    /\ IF um_thread = "ok"
       THEN /\ log' = IF um_entry[1] = "other"
                      THEN Logged(log, <<"warning", "No specific undo function", um_entry[1]>>,
                                  FALSE)
                      ELSE log
            /\ undo_stack' = Trimmed(Push(undo_stack, um_entry))
            /\ redo_stack' = <<>>
            /\ um_last' = Completed("execute_action", "returned")
       ELSE /\ log' = Logged(log, <<"error", "Error executing action", um_entry[1]>>, FALSE)
            /\ um_last' = Completed("execute_action", "raised")
            /\ UNCHANGED <<undo_stack, redo_stack>>
    /\ um_call' = "idle"
    /\ um_thread' = "none"
    /\ um_entry' = <<>>
    /\ UNCHANGED <<um_calls, um_before, notUmVars>>

\* undo up to its await: nothing to undo, or the top entry is popped and
\* its undo function runs in a worker thread
undo ==
    /\ um_call = "idle"
    /\ um_calls < MaxCalls
    /\ um_calls' = um_calls + 1
    /\ um_before' = <<undo_stack, redo_stack>>
    /\ IF undo_stack = <<>>
       THEN /\ log' = Logged(log, <<"warning", "No actions to undo", 0>>, FALSE)
            /\ um_last' = Completed("undo", "nothing")
            /\ UNCHANGED <<undo_stack, um_call, um_thread, um_entry>>
       ELSE /\ um_entry' = Top(undo_stack)
            /\ undo_stack' = Pop(undo_stack)
            /\ um_call' = "undo"
            /\ um_thread' = "running"
            /\ UNCHANGED <<log, um_last>>
    /\ UNCHANGED <<redo_stack, notUmVars>>

\* undo after its await: the entry goes to the redo stack, or the error is
\* logged and raised again and the popped entry is in neither stack
undo_resume ==
    /\ um_call = "undo"
    /\ um_thread \in {"ok", "fail"}
    /\ IF um_thread = "ok"
       THEN /\ redo_stack' = Push(redo_stack, um_entry)
            /\ um_last' = Completed("undo", "returned")
            /\ UNCHANGED log
       ELSE /\ log' = Logged(log, <<"error", "Error undoing action", um_entry[1]>>, FALSE)
            /\ um_last' = Completed("undo", "raised")
            /\ UNCHANGED redo_stack
    /\ um_call' = "idle"
    /\ um_thread' = "none"
    /\ um_entry' = <<>>
    /\ UNCHANGED <<undo_stack, um_calls, um_before, notUmVars>>

\* redo up to its await
redo ==
    /\ um_call = "idle"
    /\ um_calls < MaxCalls
    /\ um_calls' = um_calls + 1
    /\ IF redo_stack = <<>>
       THEN /\ log' = Logged(log, <<"warning", "No actions to redo", 0>>, FALSE)
            /\ um_last' = Completed("redo", "nothing")
            /\ UNCHANGED <<redo_stack, um_call, um_thread, um_entry>>
       ELSE /\ um_entry' = Top(redo_stack)
            /\ redo_stack' = Pop(redo_stack)
            /\ um_call' = "redo"
            /\ um_thread' = "running"
            /\ UNCHANGED <<log, um_last>>
    /\ UNCHANGED <<undo_stack, um_before, notUmVars>>

\* redo after its await
redo_resume ==
    /\ um_call = "redo"
    /\ um_thread \in {"ok", "fail"}
    /\ IF um_thread = "ok"
       THEN /\ undo_stack' = Push(undo_stack, um_entry)
            /\ um_last' = Completed("redo", "returned")
            /\ UNCHANGED log
       ELSE /\ log' = Logged(log, <<"error", "Error redoing action", um_entry[1]>>, FALSE)
            /\ um_last' = Completed("redo", "raised")
            /\ UNCHANGED undo_stack
    /\ um_call' = "idle"
    /\ um_thread' = "none"
    /\ um_entry' = <<>>
    /\ UNCHANGED <<redo_stack, um_calls, um_before, notUmVars>>

\* clear_history
clear_history ==
    /\ um_call = "idle"
    /\ um_calls < MaxCalls
    /\ um_calls' = um_calls + 1
    /\ undo_stack' = <<>>
    /\ redo_stack' = <<>>
    /\ log' = Logged(log, <<"info", "Cleared all undo/redo history", 0>>, FALSE)
    /\ um_last' = Completed("clear_history", "returned")
    /\ UNCHANGED <<um_call, um_thread, um_entry, um_before, notUmVars>>

InitUndo ==
    /\ CallInit
    /\ GatherIdle
    /\ SemIdle
    /\ UnitIdle
    /\ RetryIdle
    /\ TimeoutIdle
    /\ DgIdle
    /\ RlIdle
    /\ PrIdle

NextUndo ==
    \/ execute_action
    \/ UmUnitReturn
    \/ UmUnitRaise
    \/ execute_action_resume
    \/ undo
    \/ undo_resume
    \/ redo
    \/ redo_resume
    \/ clear_history

SpecUndo == InitUndo /\ [][NextUndo]_vars

\* the two latest completed calls are a successful undo and a successful redo
UndoThenRedo ==
    /\ um_call = "idle"
    /\ Len(um_last) = 2
    /\ um_last[1] = <<"undo", "returned">>
    /\ um_last[2] = <<"redo", "returned">>

\* C30: after an undo that ran an entry's undo function without error and a
\* redo, made next, that ran its redo function without error, the undo stack
\* and the redo stack are what they were when undo was called.
C30_UndoThenRedoRestoresStacks ==
    UndoThenRedo => <<undo_stack, redo_stack>> = um_before

\* the redo took the entry back from a redo stack that held another one
C30_Witness ==
    /\ UndoThenRedo
    /\ Len(undo_stack) = 1
    /\ redo_stack # <<>>

\* ----------------------- two calls of run_with_dependency_graph at once
\* Two calls of run_with_dependency_graph are made on one AsyncOperations
\* with the same tasks and dependencies, and run as two asyncio tasks.  The
\* unit of a name in failing raises, the unit of any other name n returns
\* Val(n).  The steps of a call between two awaits of to_thread are taken
\* one at a time here; the event loop takes them without suspension, so the
\* interleavings of the model include those of the program.
Runs == {1, 2}

Other(r) == 3 - r

\* the lists of prerequisites of the graphs the two calls are given: at most
\* one name
ShortDepLists == {l \in DepLists : Len(l) <= 1}

\* results and in_progress kept on the instance: one pair for all calls
BookOfInstance(r) == 1

\* "results = {}", "in_progress = set()": locals of the call, one pair for
\* each call
BookOf(r) == r

CcResultsOf(r) == ccResults[BookOf(r)]
CcInProgressOf(r) == ccInProgress[BookOf(r)]

\* the call: the two collections are created
CcCall(r) ==
    /\ ccState[r] = "init"
    /\ ccState' = [ccState EXCEPT ![r] = "running"]
    /\ ccResults' = [ccResults EXCEPT ![BookOf(r)] = <<>>]
    /\ ccInProgress' = [ccInProgress EXCEPT ![BookOf(r)] = {}]
    /\ ccTopIdx' = [ccTopIdx EXCEPT ![r] = 1]
    /\ UNCHANGED <<log, failing, ccStack, ccThread, ccRet, ccExc, ccInvoked, ccMet>>
    /\ UNCHANGED <<notCcVars>>

\* run_task_with_deps(name) in call r, up to its first call or await; rest
\* is the stack of the caller
CcRunTaskWithDeps(r, name, rest) ==
    IF name \in DOMAIN CcResultsOf(r)
    THEN /\ ccStack' = [ccStack EXCEPT ![r] = rest]
         /\ UNCHANGED <<ccInProgress, ccState, ccExc, ccMet>>
    ELSE IF name \in CcInProgressOf(r)
    THEN /\ ccState' = [ccState EXCEPT ![r] = "raised"]
         /\ ccExc' = [ccExc EXCEPT ![r] =
                         Object("ValueError", "Circular dependency detected for task", name)]
         /\ ccStack' = [ccStack EXCEPT ![r] = <<>>]
         /\ UNCHANGED <<ccInProgress, ccMet>>
    ELSE /\ ccInProgress' = [ccInProgress EXCEPT ![BookOf(r)] = @ \cup {name}]
         /\ ccStack' = [ccStack EXCEPT ![r] = Append(rest, [name |-> name, dep |-> 1])]
         /\ ccMet' = IF name \in ccInProgress[Other(r)] THEN ccMet \cup {name} ELSE ccMet
         /\ UNCHANGED <<ccState, ccExc>>

\* "for task_name in tasks: await run_task_with_deps(task_name)"
CcLoop(r) ==
    /\ ccState[r] = "running"
    /\ ccStack[r] = <<>>
    /\ ccTopIdx[r] <= Len(dgOrder)
    /\ CcRunTaskWithDeps(r, dgOrder[ccTopIdx[r]], <<>>)
    /\ ccTopIdx' = [ccTopIdx EXCEPT ![r] = @ + 1]
    /\ UNCHANGED <<log, failing, ccResults, ccThread, ccRet, ccInvoked>>
    /\ UNCHANGED <<notCcVars>>

\* "for dep in deps: await run_task_with_deps(dep)" in the innermost frame
CcResolveDep(r) ==
    /\ ccState[r] = "running"
    /\ ccStack[r] # <<>>
    /\ LET st == ccStack[r]
           top == st[Len(st)]
           deps == DepsOf(top.name)
       IN /\ top.dep <= Len(deps)
          /\ CcRunTaskWithDeps(r, deps[top.dep], [st EXCEPT ![Len(st)].dep = top.dep + 1])
    /\ UNCHANGED <<log, failing, ccResults, ccTopIdx, ccThread, ccRet, ccInvoked>>
    /\ UNCHANGED <<notCcVars>>

\* the prerequisites are resolved: run_task up to its await of to_thread
CcInvoke(r) ==
    /\ ccState[r] = "running"
    /\ ccStack[r] # <<>>
    /\ LET st == ccStack[r]
           top == st[Len(st)]
       IN /\ top.dep > Len(DepsOf(top.name))
          /\ ccInvoked' = [ccInvoked EXCEPT ![r] = Append(@, top.name)]
    /\ ccThread' = [ccThread EXCEPT ![r] = "running"]
    /\ ccState' = [ccState EXCEPT ![r] = "awaiting"]
    /\ UNCHANGED <<log, failing, ccResults, ccInProgress, ccStack, ccTopIdx, ccRet, ccExc, ccMet>>
    /\ UNCHANGED <<notCcVars>>

\* the worker thread of call r ends
CcUnitEnd(r) ==
    /\ ccThread[r] = "running"
    /\ LET name == ccStack[r][Len(ccStack[r])].name
       IN ccThread' = [ccThread EXCEPT ![r] = IF name \in failing THEN "fail" ELSE "ok"]
    /\ UNCHANGED <<log, failing, ccState, ccResults, ccInProgress, ccStack, ccTopIdx, ccRet, ccExc,
                   ccInvoked, ccMet>>
    /\ UNCHANGED <<notCcVars>>

\* run_task resumes: the result is cached, the name leaves in_progress and
\* the frame returns; or the exception, logged by run_task, ends the call
CcResume(r) ==
    /\ ccState[r] = "awaiting"
    /\ ccThread[r] \in {"ok", "fail"}
    /\ LET name == ccStack[r][Len(ccStack[r])].name
       IN /\ log' = run_task_log(ccThread[r] = "ok", name)
          /\ IF ccThread[r] = "ok"
             THEN /\ ccResults' = [ccResults EXCEPT ![BookOf(r)] = (name :> Val(name)) @@ @]
                  /\ ccInProgress' = [ccInProgress EXCEPT ![BookOf(r)] = @ \ {name}]
                  /\ ccStack' = [ccStack EXCEPT ![r] = SubSeq(@, 1, Len(@) - 1)]
                  /\ ccState' = [ccState EXCEPT ![r] = "running"]
                  /\ UNCHANGED ccExc
             ELSE /\ ccState' = [ccState EXCEPT ![r] = "raised"]
                  /\ ccExc' = [ccExc EXCEPT ![r] = Err(name, 1)]
                  /\ ccStack' = [ccStack EXCEPT ![r] = <<>>]
                  /\ UNCHANGED <<ccResults, ccInProgress>>
    /\ ccThread' = [ccThread EXCEPT ![r] = "none"]
    /\ UNCHANGED <<failing, ccTopIdx, ccRet, ccInvoked, ccMet>>
    /\ UNCHANGED <<notCcVars>>

\* "return results"
CcReturn(r) ==
    /\ ccState[r] = "running"
    /\ ccStack[r] = <<>>
    /\ ccTopIdx[r] > Len(dgOrder)
    /\ ccState' = [ccState EXCEPT ![r] = "returned"]
    /\ ccRet' = [ccRet EXCEPT ![r] = CcResultsOf(r)]
    /\ UNCHANGED <<log, failing, ccResults, ccInProgress, ccStack, ccTopIdx, ccThread, ccExc,
                   ccInvoked, ccMet>>
    /\ UNCHANGED <<notCcVars>>

InitConcurrent ==
    /\ log = <<>>
    /\ logger = "ok"
    /\ callState = "init"
    /\ retVal = None
    /\ excVal = None
    /\ UmIdle
    /\ GatherIdle
    /\ SemIdle
    /\ UnitIdle
    /\ RetryIdle
    /\ TimeoutIdle
    /\ RlIdle
    /\ PrIdle
    /\ dgOrder = <<"A", "B", "C">>
    /\ dependencies \in [TaskNames -> ShortDepLists]
    /\ results = <<>>
    /\ in_progress = {}
    /\ stack = <<>>
    /\ topIdx = 0
    /\ dgThread = "none"
    /\ invoked = <<>>
    /\ calls = <<>>
    /\ failing \in SUBSET TaskNames
    /\ ccState = [r \in Runs |-> "init"]
    /\ ccResults = [r \in Runs |-> <<>>]
    /\ ccInProgress = [r \in Runs |-> {}]
    /\ ccStack = [r \in Runs |-> <<>>]
    /\ ccTopIdx = [r \in Runs |-> 0]
    /\ ccThread = [r \in Runs |-> "none"]
    /\ ccRet = [r \in Runs |-> <<>>]
    /\ ccExc = [r \in Runs |-> None]
    /\ ccInvoked = [r \in Runs |-> <<>>]
    /\ ccMet = {}

NextConcurrent ==
    \E r \in Runs :
        \/ CcCall(r)
        \/ CcLoop(r)
        \/ CcResolveDep(r)
        \/ CcInvoke(r)
        \/ CcUnitEnd(r)
        \/ CcResume(r)
        \/ CcReturn(r)

SpecConcurrent == InitConcurrent /\ [][NextConcurrent]_vars

\* What one call of run_with_dependency_graph does when no other call is
\* made: the loop of lines 157-158 over run_task_with_deps (lines 140-155),
\* as a function of the graph and of failing.  st holds results,
\* in_progress, the exception that ended the call (None: none) and the names
\* whose unit was invoked.
RECURSIVE ResolveAlone(_, _)
RECURSIVE ResolveListAlone(_, _, _)
ResolveAlone(name, st) ==
    IF st.exc # None THEN st
    ELSE IF name \in DOMAIN st.results THEN st
    ELSE IF name \in st.in_progress
    THEN [st EXCEPT !.exc = Object("ValueError", "Circular dependency detected for task", name)]
    ELSE LET marked == [st EXCEPT !.in_progress = @ \cup {name}]
             after == ResolveListAlone(DepsOf(name), 1, marked)
         IN  IF after.exc # None THEN after
             ELSE IF name \in failing
             THEN [after EXCEPT !.invoked = Append(@, name), !.exc = Err(name, 1)]
             ELSE [after EXCEPT !.invoked = Append(@, name),
                                !.results = (name :> Val(name)) @@ @,
                                !.in_progress = @ \ {name}]

ResolveListAlone(names, i, st) ==
    IF i > Len(names) THEN st
    ELSE ResolveListAlone(names, i + 1, ResolveAlone(names[i], st))

AloneRun ==
    ResolveListAlone(dgOrder, 1,
        [results |-> <<>>, in_progress |-> {}, exc |-> None, invoked |-> <<>>])

\* call r has ended
CcEnded(r) == ccState[r] \in {"returned", "raised"}

\* C27: each of two calls of run_with_dependency_graph made at once on one
\* instance ends as it would end alone: it returns the same dict or raises
\* the same exception (a cycle is reported only when the graph has one on
\* its way), and it has invoked the same units in the same order.
C27_ConcurrentRunsEndAsAlone ==
    \A r \in Runs :
        /\ ccState[r] = "returned" =>
              /\ AloneRun.exc = None
              /\ ccRet[r] = AloneRun.results
        /\ ccState[r] = "raised" => ccExc[r] = AloneRun.exc
        /\ CcEnded(r) => ccInvoked[r] = AloneRun.invoked

\* both calls have returned, and a name was in progress in both at once
C27_Witness ==
    /\ \A r \in Runs : ccState[r] = "returned"
    /\ ccMet # {}

=============================================================================
